---- MODULE Spec2Model ----
(***************************************************************************)
(* Notification rule and delivery engine of easy_slack:                    *)
(*   core/enums.py   NotificationPriority, UserStatus                      *)
(*   core/models.py  Message, NotificationRule, NotificationProfile        *)
(*   core/rules.py   RuleEngine                                            *)
(*   core/sound_management.py  NotificationManager: profiles, notify       *)
(* Spec calls the methods of a RuleEngine, SpecCache feeds it messages     *)
(* until its cache overflows, SpecNotify calls the methods of a            *)
(* NotificationManager, SpecObjects does either, SpecFunctions evaluates   *)
(* can_break_through and matches on their own.                             *)
(* Strings of the program are TLA+ strings; a template is a sequence of    *)
(* tokens, a token being literal text or one "{field}" placeholder.        *)
(* Time is counted in ticks, TicksPerSecond ticks to the second.           *)
(***************************************************************************)
EXTENDS Integers, Sequences, FiniteSets, TLC

VARIABLES
    rules,                \* RuleEngine.rules: insertion-ordered dict, as a sequence of rules
    current_status,       \* RuleEngine.current_status
    processed_messages,   \* RuleEngine._processed_messages, the ids of the message catalog
    fresh_ids,            \* number of further ids in _processed_messages (ids seen once only)
    start_time,           \* RuleEngine._start_time
    last,                 \* the last engine call: operation, argument, returned value
    seen,                 \* history: per message, what happened to the cache since it was processed
    profiles,             \* NotificationManager.profiles: name -> profile
    user_profiles,        \* NotificationManager.user_profiles: sender id -> profile name
    notify_status,        \* NotificationManager.current_status
    processed_notifications, \* NotificationManager._processed_notifications
    notification_start_time, \* NotificationManager._notification_start_time
    notification_queue,   \* NotificationManager.notification_queue: the heap list
    fresh_keys,           \* number of further keys in _processed_notifications
    nlast,                \* the last notify call
    probe,                \* the last evaluation of a function on its own: inputs, result
    component,            \* which object's methods the behaviour calls
    builder,              \* a RuleBuilder: _conditions, _actions, _name, _priority, _exceptions
    chain,                \* the chain of calls on the builder: "open", or "done" after done()
    built,                \* the last call on the builder
    slack,                \* RuleEngine.slack
    manager_status,       \* StatusManager.current_status
    buffer,               \* StatusManager.buffer, a NotificationBuffer
    status_listeners,     \* StatusManager.status_listeners
    slast,                \* the last call on the status manager
    alast,                \* the last call on the EasySlack object
    unfinished_tasks,     \* notification_queue.unfinished_tasks: puts not yet marked done
    running,              \* NotificationManager.running
    worker,               \* the worker thread: where it stands, the item it holds
    delivered,            \* history: the calls of _send_notification, in order
    cleanup,              \* the thread inside NotificationManager.cleanup: where it stands,
                          \* and (history) the entries that were queued at the call
    saved,                \* whether cleanup has written notifications.json
    config_file,          \* notifications.json: the profiles and overrides last written
    ingest                \* the event loop's scheduled coroutines, and the socket client's
                          \* thread inside a presence callback

vars == <<rules, current_status, processed_messages, fresh_ids, start_time, last, seen,
          profiles, user_profiles, notify_status, processed_notifications,
          notification_start_time, notification_queue, fresh_keys, nlast, probe, component,
          builder, chain, built, slack, manager_status, buffer, status_listeners, slast,
          alast, unfinished_tasks, running, worker, delivered, cleanup, saved,
          config_file, ingest>>

engineVars == <<rules, current_status, processed_messages, fresh_ids, start_time, last, seen>>
probeVars == <<probe, component>>
notifyVars == <<profiles, user_profiles, notify_status, processed_notifications,
                notification_start_time, notification_queue, fresh_keys, nlast,
                unfinished_tasks>>
builderVars == <<builder, chain, built, slack>>
statusVars == <<manager_status, buffer, status_listeners, slast>>
appVars == <<alast, ingest>>
threadVars == <<running, worker, delivered, cleanup, saved, config_file>>
otherVars == <<builderVars, statusVars, appVars, threadVars>>

-----------------------------------------------------------------------------
(* Bounds of the model *)

MaxTime == 2             \* timestamps and start times range over 0..MaxTime ticks
TicksPerSecond == 2      \* resolution of a timestamp
MaxRules == 2            \* rules registered at once
MaxQueue == 3            \* items waiting in the notification queue
MaxConditions == 1       \* conditions of a rule under construction
MaxActions == 2          \* actions of a rule under construction
MaxBuffered == 3         \* messages held in the notification buffer
MaxListeners == 2        \* status listeners registered at once
MaxScheduled == 2        \* coroutines handed to the event loop and not yet run

(* Program constants *)

CacheLimit == 1000       \* len(self._processed_messages) > 1000

-----------------------------------------------------------------------------
(* enums.py *)

UserStatus == {"ACTIVE", "FOCUSED", "DND", "AWAY"}

NotificationPriority == {"LOW", "MEDIUM", "HIGH", "CRITICAL"}

MessageType == {"direct", "channel", "thread", "mention"}

\* NotificationPriority.<NAME>.value, spelled as letter numbers a=1 .. z=26
PriorityValue(p) ==
    CASE p = "LOW"      -> <<12, 15, 23>>
      [] p = "MEDIUM"   -> <<13, 5, 4, 9, 21, 13>>
      [] p = "HIGH"     -> <<8, 9, 7, 8>>
      [] p = "CRITICAL" -> <<3, 18, 9, 20, 9, 3, 1, 12>>

\* str.__lt__: lexicographic order of two strings
RECURSIVE StrLess(_, _)
StrLess(a, b) ==
    IF b = <<>> THEN FALSE
    ELSE IF a = <<>> THEN TRUE
    ELSE IF Head(a) # Head(b) THEN Head(a) < Head(b)
    ELSE StrLess(Tail(a), Tail(b))

can_break_through(p, status) ==
    IF status = "ACTIVE" THEN TRUE
    ELSE IF status = "FOCUSED" THEN p \in {"HIGH", "CRITICAL"}
    ELSE IF status = "DND" THEN p = "CRITICAL"
    ELSE FALSE

-----------------------------------------------------------------------------
(* models.py: Message *)

NoChannel == "None"      \* channel_id None (or the empty string): falsy

Message(id, content, sender_id, sender_name, channel_id, timestamp, message_type) ==
    [id |-> id, content |-> content, sender_id |-> sender_id, sender_name |-> sender_name,
     channel_id |-> channel_id, timestamp |-> timestamp, message_type |-> message_type]

NoMessage == Message("", "", "", "", NoChannel, 0, "direct")

\* Message.formatted_time: the timestamp as text
formatted_time(m) == ToString(m.timestamp)

\* the context dict of str.format in _process_actions and format_message
ContextFields == {"{sender}", "{content}", "{channel}", "{time}"}

Placeholders == ContextFields \cup {"{user}"}

context(m, field) ==
    CASE field = "{sender}"  -> m.sender_name
      [] field = "{content}" -> m.content
      [] field = "{channel}" -> IF m.channel_id = NoChannel THEN "DM" ELSE m.channel_id
      [] field = "{time}"    -> formatted_time(m)

\* str.format(**context): KeyError on a placeholder that is not in the context
format(template, m) ==
    IF \E i \in 1..Len(template) : template[i] \in Placeholders \ ContextFields
    THEN [raised |-> TRUE, text |-> <<>>]
    ELSE [raised |-> FALSE,
          text |-> [i \in 1..Len(template) |->
                      IF template[i] \in ContextFields THEN context(m, template[i])
                      ELSE template[i]]]

-----------------------------------------------------------------------------
(* models.py: NotificationRule *)

\* re.search(value, content, re.IGNORECASE) on the patterns and contents of the model:
\* "(" does not compile (re.error), the others are searched for anywhere in the
\* content, letter case ignored
ValidPattern(pattern) == pattern # "("

Matched(pattern) ==
    CASE pattern = "urgent" -> {"urgent fix", "URGENT"}
      [] pattern = "hel+o"  -> {"hello", "urgent fix hello"}
      [] OTHER              -> {}

re_search(pattern, content) ==
    IF ~ValidPattern(pattern) THEN "raise"
    ELSE IF content \in Matched(pattern) THEN "true" ELSE "false"

Bool(b) == IF b THEN "true" ELSE "false"

\* NotificationRule._check_condition: "true", "false" or "raise"
check_condition(condition_type, value, m) ==
    IF condition_type = "sender" THEN
        IF value = "self"
        THEN Bool(m.message_type = "direct" /\ m.sender_id = m.channel_id)
        ELSE Bool(m.sender_id = value)
    ELSE IF condition_type = "channel" THEN Bool(m.channel_id = value)
    ELSE IF condition_type = "content" THEN re_search(value, m.content)
    ELSE IF condition_type = "message_type" THEN Bool(m.message_type = value)
    ELSE "false"

\* the loop over self.conditions.items(): the first failing condition decides
RECURSIVE check_conditions(_, _)
check_conditions(conditions, m) ==
    IF conditions = <<>> THEN "true"
    ELSE LET c == check_condition(Head(conditions)[1], Head(conditions)[2], m) IN
         IF c = "true" THEN check_conditions(Tail(conditions), m) ELSE c

\* variant: the conditions are tested before the exceptions
matches_conditions_first(rule, m) ==
    IF ~rule.enabled THEN "false"
    ELSE LET c == check_conditions(rule.conditions, m) IN
         IF c # "true" THEN c
         ELSE IF m.sender_id \in rule.exceptions THEN "false" ELSE "true"

\* variant: the enabled flag is not tested
matches_ignore_enabled(rule, m) ==
    IF m.sender_id \in rule.exceptions THEN "false"
    ELSE check_conditions(rule.conditions, m)

\* NotificationRule.matches: "true", "false" or "raise"
matches(rule, m) ==
    IF ~rule.enabled THEN "false"
    ELSE IF m.sender_id \in rule.exceptions THEN "false"
    ELSE check_conditions(rule.conditions, m)

\* an action dict {type, profile, params, priority}; params is
\*   "absent": no 'params' key         "empty": a dict without a 'message' key
\*   "none":   'message' is None       "tmpl":  'message' is the template
\* origin (rule id, position in the rule's list) is history, not program state
Params(kind, message) == [kind |-> kind, message |-> message]

Action(type, profile, params, priority, origin) ==
    [type |-> type, profile |-> profile, params |-> params, priority |-> priority,
     origin |-> origin]

NotificationRule(id, conditions, actions, priority, enabled, exceptions) ==
    [id |-> id, conditions |-> conditions, actions |-> actions, priority |-> priority,
     enabled |-> enabled, exceptions |-> exceptions]

-----------------------------------------------------------------------------
(* rules.py: RuleEngine *)

FreshId == "fresh"       \* stands for an id no other call carries, before or after

\* one pass of the loop of _process_actions over an action: the copy is shallow, so a
\* params dict that exists is shared with the rule and the rule's stored action
\* changes with it; an exception drops the action
process_action(action, m) ==
    IF action.params.kind = "tmpl" THEN
        LET f == format(action.params.message, m) IN
        IF f.raised THEN [kept |-> FALSE, processed |-> action, stored |-> action]
        ELSE LET a == [action EXCEPT !.params = Params("tmpl", f.text)] IN
             [kept |-> TRUE, processed |-> a, stored |-> a]
    ELSE LET a == [action EXCEPT !.params = Params("tmpl", <<m.content>>)] IN
         [kept |-> TRUE, processed |-> a,
          stored |-> IF action.params.kind = "absent" THEN action ELSE a]

\* RuleEngine._process_actions: the list returned and the rule's list afterwards
process_actions(actions, m) ==
    LET each == [i \in 1..Len(actions) |-> process_action(actions[i], m)]
        kept == SelectSeq(each, LAMBDA e : e.kept) IN
    [processed |-> [i \in 1..Len(kept) |-> kept[i].processed],
     stored    |-> [i \in 1..Len(actions) |-> each[i].stored]]

\* str.upper() of an action's priority tag
upper(s) ==
    CASE s = "low" -> "LOW" [] s = "medium" -> "MEDIUM" [] s = "high" -> "HIGH"
      [] s = "critical" -> "CRITICAL" [] OTHER -> s

\* get_priority_value: the enum member's value, a string; <<>> stands for KeyError
get_priority_value(action) ==
    LET priority == IF action.priority = "absent" THEN "MEDIUM" ELSE action.priority IN
    IF upper(priority) \in NotificationPriority
    THEN PriorityValue(upper(priority))
    ELSE <<>>

\* sorted(actions, key=get_priority_value, reverse=True): descending by key, elements of
\* equal key in their order in the list (list.sort is stable, also with reverse)
RECURSIVE insert_sorted(_, _)
insert_sorted(s, x) ==
    IF s = <<>> THEN <<x>>
    ELSE IF StrLess(get_priority_value(Head(s)), get_priority_value(x))
         THEN <<x>> \o s
         ELSE <<Head(s)>> \o insert_sorted(Tail(s), x)

\* variant: an element goes before the elements of equal key
RECURSIVE insert_unstable(_, _)
insert_unstable(s, x) ==
    IF s = <<>> THEN <<x>>
    ELSE IF ~StrLess(get_priority_value(x), get_priority_value(Head(s)))
         THEN <<x>> \o s
         ELSE <<Head(s)>> \o insert_unstable(Tail(s), x)

RECURSIVE sorted_unstable(_)
sorted_unstable(actions) ==
    IF actions = <<>> THEN <<>>
    ELSE insert_unstable(sorted_unstable(SubSeq(actions, 1, Len(actions) - 1)),
                         actions[Len(actions)])

RECURSIVE sorted_reverse(_)
sorted_reverse(actions) ==
    IF actions = <<>> THEN <<>>
    ELSE insert_sorted(sorted_reverse(SubSeq(actions, 1, Len(actions) - 1)),
                       actions[Len(actions)])

\* `if message.timestamp < self._start_time` (variant: the test is missing)
predates_start_never(m, start) == FALSE

predates_start(m, start) == m.timestamp < start

\* `if message.id in self._processed_messages` (variant: the test is missing)
already_processed_never(m, ids) == FALSE

already_processed(m, ids) == m.id \in ids

\* `if len(self._processed_messages) > 1000` (variant: off by one)
cache_too_large_late(size) == size > CacheLimit + 1

cache_too_large(size) == size > CacheLimit

\* `if rule.priority.can_break_through(self.current_status)` (variant: no gate)
rule_admitted_always(rule, status) == TRUE

rule_admitted(rule, status) == can_break_through(rule.priority, status)

\* the loop `for rule in self.rules.values()` inside the try block: an exception of
\* rule.matches leaves the loop, the rules changed so far stay changed
RECURSIVE evaluate_rules(_, _, _, _, _)
evaluate_rules(i, rs, acts, m, status) ==
    IF i > Len(rs) THEN [rules |-> rs, actions |-> acts, raised |-> FALSE]
    ELSE LET matched == matches(rs[i], m) IN
         IF matched = "raise" THEN [rules |-> rs, actions |-> acts, raised |-> TRUE]
         ELSE IF matched = "true" /\ rule_admitted(rs[i], status)
              THEN LET pa == process_actions(rs[i].actions, m) IN
                   evaluate_rules(i + 1, [rs EXCEPT ![i].actions = pa.stored],
                                  acts \o pa.processed, m, status)
              ELSE evaluate_rules(i + 1, rs, acts, m, status)

\* RuleEngine.process_message as a function of the engine's fields: the value returned
\* and the fields afterwards
process_message(rs, status, ids, fresh, start, m) ==
    LET unchanged == [result |-> <<>>, rules |-> rs, ids |-> ids, fresh |-> fresh,
                      inserted |-> FALSE, cleared |-> FALSE] IN
    IF predates_start(m, start) THEN unchanged
    ELSE IF already_processed(m, ids) THEN unchanged
    ELSE LET ids1    == IF m.id = FreshId THEN ids ELSE ids \cup {m.id}
             fresh1  == IF m.id = FreshId THEN fresh + 1 ELSE fresh
             cleared == cache_too_large(Cardinality(ids1) + fresh1)
             run     == evaluate_rules(1, rs, <<>>, m, status)
             failed  == run.raised
                        \/ \E i \in 1..Len(run.actions) :
                              get_priority_value(run.actions[i]) = <<>>
         IN [result   |-> IF failed THEN <<>> ELSE sorted_reverse(run.actions),
             rules    |-> run.rules,
             ids      |-> IF cleared THEN {} ELSE ids1,
             fresh    |-> IF cleared THEN 0 ELSE fresh1,
             inserted |-> TRUE,
             cleared  |-> cleared]

\* variant: a rule whose id is already there is not written
add_rule_first_wins(rs, rule) ==
    IF \E i \in 1..Len(rs) : rs[i].id = rule.id THEN rs ELSE Append(rs, rule)

\* RuleEngine.add_rule: self.rules[rule.id] = rule keeps the place of an id already there
add_rule(rs, rule) ==
    IF \E i \in 1..Len(rs) : rs[i].id = rule.id
    THEN [i \in 1..Len(rs) |-> IF rs[i].id = rule.id THEN rule ELSE rs[i]]
    ELSE Append(rs, rule)

\* RuleEngine.remove_rule
remove_rule(rs, rule_id) == SelectSeq(rs, LAMBDA r : r.id # rule_id)

-----------------------------------------------------------------------------
(* models.py: NotificationProfile; sound_management.py: NotificationManager *)

NotificationProfile(name, title_template, message_template, priority, enabled) ==
    [name |-> name, title_template |-> title_template,
     message_template |-> message_template, priority |-> priority, enabled |-> enabled]

\* NotificationProfile.format_message
format_message(profile, m) ==
    LET title == format(profile.title_template, m)
        msg   == format(profile.message_template, m) IN
    [raised |-> title.raised \/ msg.raised, title |-> title.text, msg |-> msg.text]

\* NotificationManager._init_default_profiles: the five built-in profiles
DefaultProfiles ==
    [name \in {"default", "mention", "dm", "urgent", "team"} |->
        CASE name = "default" ->
               NotificationProfile(name, <<"Slack Message">>,
                                   <<"New message from ", "{sender}">>, "MEDIUM", TRUE)
          [] name = "mention" ->
               NotificationProfile(name, <<"Slack Mention">>,
                                   <<"{sender}", " mentioned you">>, "HIGH", TRUE)
          [] name = "dm" ->
               NotificationProfile(name, <<"Direct Message">>,
                                   <<"DM from ", "{sender}">>, "HIGH", TRUE)
          [] name = "urgent" ->
               NotificationProfile(name, <<"Urgent Message">>,
                                   <<"URGENT: ", "{content}">>, "CRITICAL", TRUE)
          [] name = "team" ->
               NotificationProfile(name, <<"Team Message">>,
                                   <<"Team update in ", "{channel}">>, "MEDIUM", TRUE)]

\* dict.get with a default
Get(map, key, default) == IF key \in DOMAIN map THEN map[key] ELSE default

\* dict[key] = value
Put(map, key, value) ==
    [k \in DOMAIN map \cup {key} |-> IF k = key THEN value ELSE map[k]]

None == "None"           \* the profile_name argument left out

\* variant: the argument comes before the sender's override
resolve_argument_first(overrides, m, profile_name) ==
    IF profile_name # None /\ profile_name # "" THEN profile_name
    ELSE IF Get(overrides, m.sender_id, "") # "" THEN overrides[m.sender_id]
    ELSE "default"

\* `self.user_profiles.get(message.sender_id) or profile_name or "default"`
resolve_profile_name(overrides, m, profile_name) ==
    IF Get(overrides, m.sender_id, "") # "" THEN overrides[m.sender_id]
    ELSE IF profile_name # None /\ profile_name # "" THEN profile_name
    ELSE "default"

\* `if not profile or not profile.enabled` (variant: the enabled flag is not tested)
profile_unusable_missing_only(profs, name) == name \notin DOMAIN profs

profile_unusable(profs, name) == name \notin DOMAIN profs \/ ~profs[name].enabled

\* the priority_value dict of notify
priority_value(priority) ==
    CASE priority = "LOW" -> 1 [] priority = "MEDIUM" -> 2 [] priority = "HIGH" -> 3
      [] priority = "CRITICAL" -> 4 [] OTHER -> 2

\* int(message.timestamp)
int(timestamp) == timestamp \div TicksPerSecond

\* the letters by which str.__lt__ tells two titles or two bodies of the model apart
\* (a=1 .. z=26, the space 32), for the comparison of two queue entries
Letters(text) ==
    CASE text = <<>> -> <<>>
      [] Head(text) = "Slack Message"     -> <<19, 12, 1, 1>>
      [] Head(text) = "Slack Mention"     -> <<19, 12, 1, 2>>
      [] Head(text) = "Direct Message"    -> <<4, 9, 18>>
      [] Head(text) = "Urgent Message"    -> <<21, 18, 7>>
      [] Head(text) = "Team Message"      -> <<20, 5, 1, 13>>
      [] Head(text) = "New message from " ->
           <<14, 5, 23>> \o (IF text[2] = "Ann" THEN <<1>> ELSE <<2>>)
      [] Head(text) = "DM from "          ->
           <<4, 13>> \o (IF text[2] = "Ann" THEN <<1>> ELSE <<2>>)
      [] Head(text) = "URGENT: "          ->
           <<21, 18, 7, 5>> \o (IF text[2] = "hello" THEN <<8>> ELSE <<21>>)
      [] Head(text) = "Team update in "   ->
           <<20, 5, 1, 13, 32>> \o (IF text[2] = "C1" THEN <<3>> ELSE <<21>>)
      [] Head(text) = "Ann"               -> <<1, 14, 14>>
      [] Head(text) = "Bob"               -> <<2, 15, 2>>
      [] OTHER                            -> <<26>>

\* item < parent for two queue entries (-priority_value, -int(timestamp), data), data
\* being (title, msg, profile, sr_settings): "lt", "ge", or "raise" when the tuples
\* differ first in the profile, which has no order (TypeError)
item_less(a, b) ==
    IF a.key[1] # b.key[1] THEN (IF a.key[1] < b.key[1] THEN "lt" ELSE "ge")
    ELSE IF a.key[2] # b.key[2] THEN (IF a.key[2] < b.key[2] THEN "lt" ELSE "ge")
    ELSE IF a.title # b.title
         THEN (IF StrLess(Letters(a.title), Letters(b.title)) THEN "lt" ELSE "ge")
    ELSE IF a.msg # b.msg
         THEN (IF StrLess(Letters(a.msg), Letters(b.msg)) THEN "lt" ELSE "ge")
    ELSE IF a.profile # b.profile THEN "raise"
    ELSE "ge"

\* heapq.heappush of queue.PriorityQueue._put: append, then sift the new item towards
\* the root, swapping it with its parent while it is smaller; a comparison that raises
\* leaves the item where it stands
RECURSIVE siftdown(_, _)
siftdown(heap, pos) ==
    IF pos = 1 THEN [heap |-> heap, raised |-> FALSE]
    ELSE LET parentpos == pos \div 2
             c == item_less(heap[pos], heap[parentpos]) IN
         IF c = "raise" THEN [heap |-> heap, raised |-> TRUE]
         ELSE IF c = "lt"
              THEN siftdown([heap EXCEPT ![pos] = heap[parentpos], ![parentpos] = heap[pos]],
                            parentpos)
              ELSE [heap |-> heap, raised |-> FALSE]

heappush(heap, item) == siftdown(Append(heap, item), Len(heap) + 1)

\* the loop of heapq's siftup from pos: the smaller child moves up until a leaf is
\* reached; a comparison of the two children that raises leaves the list as it stands
RECURSIVE siftup(_, _)
siftup(heap, pos) ==
    IF 2 * pos > Len(heap) THEN siftdown(heap, pos)
    ELSE LET left  == 2 * pos
             right == 2 * pos + 1
             c     == IF right <= Len(heap) THEN item_less(heap[left], heap[right])
                      ELSE "lt"
             child == IF c = "lt" THEN left ELSE right IN
         IF c = "raise" THEN [heap |-> heap, raised |-> TRUE]
         ELSE siftup([heap EXCEPT ![pos] = heap[child], ![child] = heap[pos]], child)

\* variant: the root is returned and stays in the list
heappop_keep(heap) == [raised |-> FALSE, item |-> heap[1], heap |-> heap]

\* heapq.heappop of queue.PriorityQueue._get on a list that is not empty: the last
\* entry replaces the root and sinks; when a comparison raises, the list keeps the
\* entries as they stand and the former root is in it no more
heappop(heap) ==
    LET n    == Len(heap)
        rest == SubSeq(heap, 1, n - 1) IN
    IF n = 1 THEN [raised |-> FALSE, item |-> heap[1], heap |-> <<>>]
    ELSE LET s == siftup([rest EXCEPT ![1] = heap[n]], 1) IN
         [raised |-> s.raised, item |-> heap[1], heap |-> s.heap]

\* Queue.put of notify: unfinished_tasks is counted after _put, so a put whose
\* heappush raised leaves an entry that is not counted
counted(r) == IF r.enqueued /\ ~r.put_raised THEN 1 ELSE 0

\* Queue.task_done: ValueError when no put is waiting for it
task_done(unfinished) ==
    IF unfinished = 0 THEN [raised |-> TRUE, unfinished |-> 0]
    ELSE [raised |-> FALSE, unfinished |-> unfinished - 1]

\* `if message.timestamp < self._notification_start_time`
\* variant: the test is missing
predates_notification_start_never(m, start) == FALSE

predates_notification_start(m, start) == m.timestamp < start

\* variant: no key counts as seen
already_notified_never(key, keys) == FALSE

\* `if notification_key in self._processed_notifications`, the key f"{id}:{profile_name}"
\* as the pair of its parts
already_notified(key, keys) == key \in keys

\* variant: the status does not gate the queue
profile_admitted_always(profile, status) == TRUE

\* `profile.priority.can_break_through(self.current_status)`
profile_admitted(profile, status) == can_break_through(profile.priority, status)

\* variant: the key is put into the cache only by a call that passes the profile test
\* and the status gate
notify_gates_first(profs, overrides, status, keys, fresh, start, heap, m, profile_name) ==
    LET unchanged == [keys |-> keys, fresh |-> fresh, heap |-> heap, enqueued |-> FALSE,
                      resolved |-> None, inserted |-> FALSE, cleared |-> FALSE,
                      put_raised |-> FALSE]
        name == resolve_profile_name(overrides, m, profile_name)
        keys1 == IF m.id = FreshId THEN keys ELSE keys \cup {<<m.id, profile_name>>}
        fresh1 == IF m.id = FreshId THEN fresh + 1 ELSE fresh
        cleared == cache_too_large(Cardinality(keys1) + fresh1) IN
    IF predates_notification_start(m, start) THEN unchanged
    ELSE IF already_notified(<<m.id, profile_name>>, keys) THEN unchanged
    ELSE IF profile_unusable(profs, name) THEN [unchanged EXCEPT !.resolved = name]
    ELSE IF ~profile_admitted(profs[name], status) THEN [unchanged EXCEPT !.resolved = name]
    ELSE LET text == format_message(profs[name], m)
             cached == [unchanged EXCEPT !.keys = IF cleared THEN {} ELSE keys1,
                                          !.fresh = IF cleared THEN 0 ELSE fresh1,
                                          !.inserted = TRUE, !.cleared = cleared,
                                          !.resolved = name]
             item == [key |-> <<0 - priority_value(profs[name].priority),
                                0 - int(m.timestamp)>>,
                      title |-> text.title, msg |-> text.msg, profile |-> profs[name]]
             push == heappush(heap, item) IN
         IF text.raised THEN cached
         ELSE [cached EXCEPT !.heap = push.heap, !.enqueued = TRUE,
                             !.put_raised = push.raised]

\* NotificationManager.notify as a function of the manager's fields; every exception is
\* caught and logged by notify itself
notify(profs, overrides, status, keys, fresh, start, heap, m, profile_name) ==
    LET unchanged == [keys |-> keys, fresh |-> fresh, heap |-> heap, enqueued |-> FALSE,
                      resolved |-> None, inserted |-> FALSE, cleared |-> FALSE,
                      put_raised |-> FALSE] IN
    IF predates_notification_start(m, start) THEN unchanged
    ELSE IF already_notified(<<m.id, profile_name>>, keys) THEN unchanged
    ELSE LET keys1   == IF m.id = FreshId THEN keys ELSE keys \cup {<<m.id, profile_name>>}
             fresh1  == IF m.id = FreshId THEN fresh + 1 ELSE fresh
             cleared == cache_too_large(Cardinality(keys1) + fresh1)
             name    == resolve_profile_name(overrides, m, profile_name)
             cached  == [unchanged EXCEPT !.keys = IF cleared THEN {} ELSE keys1,
                                          !.fresh = IF cleared THEN 0 ELSE fresh1,
                                          !.inserted = TRUE, !.cleared = cleared,
                                          !.resolved = name]
         IN IF profile_unusable(profs, name) THEN cached
            ELSE IF ~profile_admitted(profs[name], status) THEN cached
            ELSE LET text == format_message(profs[name], m) IN
                 IF text.raised THEN cached
                 ELSE LET item == [key |-> <<0 - priority_value(profs[name].priority),
                                             0 - int(m.timestamp)>>,
                                   title |-> text.title, msg |-> text.msg,
                                   profile |-> profs[name]]
                          push == heappush(heap, item)
                      IN [cached EXCEPT !.heap = push.heap, !.enqueued = TRUE,
                                        !.put_raised = push.raised]

-----------------------------------------------------------------------------
(* rules.py: RuleBuilder *)

\* NotificationPriority.<NAME>.value as an action's priority tag
value(p) ==
    CASE p = "LOW" -> "low" [] p = "MEDIUM" -> "medium" [] p = "HIGH" -> "high"
      [] p = "CRITICAL" -> "critical"

\* the slack instance the engine refers to: RuleEngine.slack is None until login, then
\* the EasySlack object with its _user_id
NoSlack == [attached |-> FALSE, user_id |-> "None"]

Slack(user_id) == [attached |-> TRUE, user_id |-> user_id]

\* EasySlack._convert_email_to_user_id on the addresses of the model: the workspace
\* knows one of them
convert_email_to_user_id(email) == IF email = "ann@example.org" THEN "U1" ELSE "None"

IsEmail(identifier) == identifier \in {"ann@example.org", "zed@example.org"}

\* str.lower() of an identifier, for the comparison with "self"
lower(s) == CASE s = "Self" -> "self" [] s = "Ann" -> "ann" [] s = "Team Chat" -> "team chat"
              [] OTHER -> s

\* self._conditions[key] = value: a key already there keeps its place
SetItem(dict, key, val) ==
    IF \E i \in 1..Len(dict) : dict[i][1] = key
    THEN [i \in 1..Len(dict) |-> IF dict[i][1] = key THEN <<key, val>> ELSE dict[i]]
    ELSE Append(dict, <<key, val>>)

\* a RuleBuilder as the record of its fields
RuleBuilder ==
    [conditions |-> <<>>, actions |-> <<>>, name |-> "None", priority |-> "MEDIUM",
     exceptions |-> {}]

\* variant: "self" without a user id is stored as it is written
from_person_lenient(b, slack_instance, identifier) ==
    [raised |-> FALSE,
     builder |-> [b EXCEPT !.conditions =
                     SetItem(b.conditions, "sender",
                             IF lower(identifier) = "self" /\ slack_instance.attached
                             THEN slack_instance.user_id ELSE identifier)]]

\* RuleBuilder.from_person: the builder afterwards, or ValueError
from_person(b, slack_instance, identifier) ==
    IF lower(identifier) = "self" THEN
        IF slack_instance.attached /\ slack_instance.user_id # "None"
        THEN [raised |-> FALSE,
              builder |-> [b EXCEPT !.conditions =
                              SetItem(b.conditions, "sender", slack_instance.user_id)]]
        ELSE [raised |-> TRUE, builder |-> b]
    ELSE IF IsEmail(identifier) /\ slack_instance.attached THEN
        LET user_id == convert_email_to_user_id(identifier) IN
        [raised |-> FALSE,
         builder |-> [b EXCEPT !.conditions =
                         SetItem(b.conditions, "sender",
                                 IF user_id # "None" THEN user_id ELSE identifier)]]
    ELSE [raised |-> FALSE,
          builder |-> [b EXCEPT !.conditions = SetItem(b.conditions, "sender", identifier)]]

\* RuleBuilder.when
when(b, name) == [b EXCEPT !.name = name]

\* RuleBuilder.in_channel
in_channel(b, channel_id) ==
    [b EXCEPT !.conditions = SetItem(b.conditions, "channel", channel_id)]

\* RuleBuilder.containing
containing(b, pattern) ==
    [b EXCEPT !.conditions = SetItem(b.conditions, "content", pattern)]

\* RuleBuilder.of_type
of_type(b, message_type) ==
    [b EXCEPT !.conditions = SetItem(b.conditions, "message_type", message_type)]

\* variant: the actions already added keep their priority tag
with_priority_frozen(b, priority) == [b EXCEPT !.priority = priority]

\* RuleBuilder.with_priority: the tag of every action added so far becomes the name
with_priority(b, priority) ==
    [b EXCEPT !.priority = priority,
              !.actions = [i \in 1..Len(b.actions) |->
                              [b.actions[i] EXCEPT !.priority = priority]]]

\* RuleBuilder.add_exception
add_exception(b, entity_id) == [b EXCEPT !.exceptions = b.exceptions \cup {entity_id}]

\* RuleBuilder.play_sound: `message or '{content}'` (<<>> is the argument left out),
\* the tag is the priority's name; the title takes no part in what follows; the origin
\* of an action of a builder is the priority it was added under
play_sound(b, profile_name, message) ==
    [b EXCEPT !.actions =
        Append(b.actions,
               Action("notify", profile_name,
                      Params("tmpl", IF message = <<>> THEN <<"{content}">> ELSE message),
                      b.priority, <<"added", b.priority>>))]

\* RuleBuilder.speak: the tag is the priority's value
speak(b, message) ==
    [b EXCEPT !.actions =
        Append(b.actions,
               Action("speak", "", Params("tmpl", message), value(b.priority),
                      <<"added", b.priority>>))]

\* f"rule_{self._name.lower().replace(' ', '_')}" on the names of the model
id_of_name(name) ==
    CASE lower(name) = "ann"       -> "rule_ann"
      [] lower(name) = "team chat" -> "rule_team_chat"
      [] lower(name) = "team_chat" -> "rule_team_chat"
      [] OTHER                     -> "rule_"

NoRule == NotificationRule("", <<>>, <<>>, "MEDIUM", TRUE, {})

\* `if not self._name` (variant: the test is missing)
name_missing_never(name) == FALSE

name_missing(name) == name \in {"None", ""}

\* RuleBuilder.done: ValueError without a name, else the rule, registered in the engine
done(b, rs) ==
    IF name_missing(b.name)
    THEN [raised |-> TRUE, rule |-> NoRule, rules |-> rs]
    ELSE LET id == id_of_name(b.name)
             rule == NotificationRule(id, b.conditions,
                                      [i \in 1..Len(b.actions) |->
                                          [b.actions[i] EXCEPT !.origin = <<id, i>>]],
                                      b.priority, TRUE, b.exceptions) IN
         [raised |-> FALSE, rule |-> rule, rules |-> add_rule(rs, rule)]

-----------------------------------------------------------------------------
(* enums.py: UserStatus; models.py: NotificationBuffer; status.py: StatusManager *)

\* UserStatus.should_buffer
should_buffer(status) == status \in {"FOCUSED", "DND"}

\* UserStatus.<NAME>.value
status_value(status) ==
    CASE status = "ACTIVE" -> "active" [] status = "FOCUSED" -> "focused"
      [] status = "DND" -> "do_not_disturb" [] status = "AWAY" -> "away"

\* the dataclass NotificationBuffer; start_time is never set to a time by any code
NotificationBuffer(enabled, messages, exceptions) ==
    [enabled |-> enabled, messages |-> messages, start_time |-> "None",
     exceptions |-> exceptions]

\* variant: the exceptions are not consulted
add_message_no_exceptions(buf, m) ==
    IF ~buf.enabled THEN [returned |-> FALSE, buffer |-> buf]
    ELSE [returned |-> TRUE, buffer |-> [buf EXCEPT !.messages = Append(buf.messages, m)]]

\* NotificationBuffer.add_message: the value returned and the buffer afterwards
add_message(buf, m) ==
    IF ~buf.enabled THEN [returned |-> FALSE, buffer |-> buf]
    ELSE IF m.sender_id \in buf.exceptions THEN [returned |-> FALSE, buffer |-> buf]
    ELSE [returned |-> TRUE, buffer |-> [buf EXCEPT !.messages = Append(buf.messages, m)]]

\* the counts dict of get_summary: the sender names in the order of their first message
RECURSIVE first_seen(_)
first_seen(messages) ==
    IF messages = <<>> THEN <<>>
    ELSE LET before == first_seen(SubSeq(messages, 1, Len(messages) - 1))
             sender == messages[Len(messages)].sender_name IN
         IF \E i \in 1..Len(before) : before[i] = sender THEN before
         ELSE Append(before, sender)

count(messages, sender) ==
    Cardinality({i \in 1..Len(messages) : messages[i].sender_name = sender})

NoBufferedMessages == <<"No buffered messages">>

\* NotificationBuffer.get_summary: the text as the sequence of its comma-separated
\* parts, each f"{count} message{'s' if count > 1 else ''} from {sender}"
get_summary(buf) ==
    IF buf.messages = <<>> THEN NoBufferedMessages
    ELSE LET senders == first_seen(buf.messages) IN
         [i \in 1..Len(senders) |->
             <<count(buf.messages, senders[i]),
               IF count(buf.messages, senders[i]) > 1 THEN " messages from "
               ELSE " message from ",
               senders[i]>>]

\* NotificationBuffer.clear: the messages returned and the buffer afterwards
clear(buf) ==
    [returned |-> buf.messages,
     buffer |-> [buf EXCEPT !.messages = <<>>, !.start_time = "None", !.enabled = FALSE]]

\* a status listener: what it is and whether it raises when it is called
Listener(id, raises) == [id |-> id, raises |-> raises]

\* `for listener in self.status_listeners: listener(old_status, status)`: the calls
\* made, in order, up to and including the first one that raises
RECURSIVE notify_listeners(_, _, _)
notify_listeners(listeners, old_status, status) ==
    IF listeners = <<>> THEN [raised |-> "", calls |-> <<>>]
    ELSE LET call == <<Head(listeners).id, old_status, status>> IN
         IF Head(listeners).raises THEN [raised |-> "listener", calls |-> <<call>>]
         ELSE LET rest == notify_listeners(Tail(listeners), old_status, status) IN
              [raised |-> rest.raised, calls |-> <<call>> \o rest.calls]

\* StatusManager.set_status as a function of the manager's fields. NotificationBuffer
\* has neither start_buffering nor stop_buffering: the call raises AttributeError,
\* after the status was assigned and before any listener is called
set_status(current, buf, listeners, status, auto_buffer) ==
    IF auto_buffer /\ status \in {"FOCUSED", "DND"}
    THEN [current_status |-> status, buffer |-> buf, raised |-> "start_buffering",
          calls |-> <<>>]
    ELSE IF auto_buffer /\ current \in {"FOCUSED", "DND"}
    THEN [current_status |-> status, buffer |-> buf, raised |-> "stop_buffering",
          calls |-> <<>>]
    ELSE LET n == notify_listeners(listeners, current, status) IN
         [current_status |-> status, buffer |-> buf, raised |-> n.raised, calls |-> n.calls]

-----------------------------------------------------------------------------
(* The inputs of the model *)

SenderName(sender_id) == IF sender_id = "U1" THEN "Ann" ELSE "Bob"

Timestamps == 0..MaxTime

StartTimes == 1..MaxTime

TrackedIds == {"m1", "m2"}

\* a channel message, a direct message in the sender's own channel, and a second
\* message that carries the id of the first
EngineMessages ==
    { Message("m1", "urgent fix", "U1", SenderName("U1"), "C1", t, "channel") : t \in Timestamps }
    \cup { Message("m2", "hello", "U2", SenderName("U2"), "U2", t, "direct") : t \in Timestamps }
    \cup { Message("m1", "URGENT", "U2", SenderName("U2"), "C1", t, "channel") : t \in Timestamps }

RuleAnn ==
    NotificationRule("rule_ann", << <<"sender", "U1">> >>,
        << Action("notify", "p1", Params("tmpl", <<"{sender}", ": ", "{content}">>), "HIGH",
                  <<"rule_ann", 1>>),
           Action("speak", "", Params("tmpl", <<"{content}">>), "high", <<"rule_ann", 2>>) >>,
        "HIGH", TRUE, {})

RuleAnnSelf ==
    NotificationRule("rule_ann", << <<"sender", "self">>, <<"message_type", "direct">> >>,
        << Action("notify", "dm", Params("empty", <<>>), "MEDIUM", <<"rule_ann", 1>>) >>,
        "MEDIUM", TRUE, {})

RuleUrgent ==
    NotificationRule("rule_urgent", << <<"content", "urgent">> >>,
        << Action("notify", "urgent", Params("none", <<>>), "CRITICAL", <<"rule_urgent", 1>>),
           Action("speak", "", Params("tmpl", <<"{user}", " says ", "{content}">>), "critical",
                  <<"rule_urgent", 2>>) >>,
        "CRITICAL", TRUE, {"U2"})

RuleTeam ==
    NotificationRule("rule_team", << <<"channel", "C1">> >>,
        << Action("notify", "team", Params("absent", <<>>), "LOW", <<"rule_team", 1>>),
           Action("notify", "default", Params("tmpl", <<"ping">>), "absent", <<"rule_team", 2>>),
           Action("notify", "team", Params("tmpl", <<"ping">>), "HIGH", <<"rule_team", 3>>) >>,
        "LOW", TRUE, {})

RuleOff ==
    NotificationRule("rule_off", <<>>,
        << Action("notify", "default", Params("tmpl", <<"ping">>), "MEDIUM", <<"rule_off", 1>>) >>,
        "MEDIUM", FALSE, {})

RuleBadPattern ==
    NotificationRule("rule_bad", << <<"message_type", "channel">>, <<"content", "(">> >>,
        << Action("notify", "default", Params("tmpl", <<"ping">>), "MEDIUM", <<"rule_bad", 1>>) >>,
        "MEDIUM", TRUE, {})

RuleCatalog == {RuleAnn, RuleAnnSelf, RuleUrgent, RuleTeam, RuleOff, RuleBadPattern}

RuleIds == {r.id : r \in RuleCatalog}

-----------------------------------------------------------------------------
(* The rule engine as a state machine *)

Idle ==
    [op |-> "none", msg |-> NoMessage, result |-> <<>>, status |-> "ACTIVE", rules |-> <<>>,
     seen |-> "no", inserted |-> FALSE, cleared |-> FALSE, size |-> 0]

\* seen[id]: "no" the id was never put into the cache; "kept" it was put there and the
\* cache was not cleared since; "cleared_by_call" the call that put it there cleared the
\* cache; "cleared_later" a later call cleared the cache
seen_after(id, r) ==
    [i \in TrackedIds |->
        IF r.inserted /\ i = id THEN (IF r.cleared THEN "cleared_by_call" ELSE "kept")
        ELSE IF r.cleared /\ seen[i] = "kept" THEN "cleared_later"
        ELSE seen[i]]

ProcessMessage(m) ==
    LET r == process_message(rules, current_status, processed_messages, fresh_ids,
                             start_time, m) IN
    /\ rules' = r.rules
    /\ processed_messages' = r.ids
    /\ fresh_ids' = r.fresh
    /\ seen' = seen_after(m.id, r)
    /\ last' = [op |-> "process", msg |-> m, result |-> r.result, status |-> current_status,
                rules |-> rules, seen |-> IF m.id \in TrackedIds THEN seen[m.id] ELSE "no",
                inserted |-> r.inserted, cleared |-> r.cleared,
                size |-> Cardinality(processed_messages) + fresh_ids]
    /\ UNCHANGED <<current_status, start_time, notifyVars, probeVars, otherVars>>

AddRule(rule) ==
    /\ Len(add_rule(rules, rule)) <= MaxRules
    /\ rules' = add_rule(rules, rule)
    /\ last' = Idle
    /\ UNCHANGED <<current_status, processed_messages, fresh_ids, start_time, seen,
                   notifyVars, probeVars, otherVars>>

RemoveRule(rule_id) ==
    /\ rules' = remove_rule(rules, rule_id)
    /\ last' = Idle
    /\ UNCHANGED <<current_status, processed_messages, fresh_ids, start_time, seen,
                   notifyVars, probeVars, otherVars>>

\* RuleEngine.set_status
SetStatus(status) ==
    /\ current_status' = status
    /\ last' = Idle
    /\ UNCHANGED <<rules, processed_messages, fresh_ids, start_time, seen, notifyVars, probeVars, otherVars>>

\* the last notify call, when no other step of the manager came after it
NotifyIdle ==
    [op |-> "none", msg |-> NoMessage, profile_name |-> None, resolved |-> None,
     enqueued |-> FALSE, queue |-> <<>>, status |-> "ACTIVE", inserted |-> FALSE,
     cleared |-> FALSE, put_raised |-> FALSE]

Notify(m, profile_name) ==
    LET r == notify(profiles, user_profiles, notify_status, processed_notifications,
                    fresh_keys, notification_start_time, notification_queue, m,
                    profile_name) IN
    /\ Len(notification_queue) < MaxQueue
    /\ processed_notifications' = r.keys
    /\ fresh_keys' = r.fresh
    /\ notification_queue' = r.heap
    /\ unfinished_tasks' = unfinished_tasks + counted(r)
    /\ nlast' = [op |-> "notify", msg |-> m, profile_name |-> profile_name,
                 resolved |-> r.resolved, enqueued |-> r.enqueued,
                 queue |-> notification_queue,
                 status |-> notify_status, inserted |-> r.inserted, cleared |-> r.cleared,
                 put_raised |-> r.put_raised]
    /\ UNCHANGED <<profiles, user_profiles, notify_status, notification_start_time,
                   engineVars, probeVars, otherVars>>

\* NotificationManager.set_status
SetNotifyStatus(status) ==
    /\ notify_status' = status
    /\ nlast' = NotifyIdle
    /\ UNCHANGED <<profiles, user_profiles, processed_notifications, fresh_keys,
                   notification_start_time, notification_queue, unfinished_tasks,
                   engineVars, probeVars, otherVars>>

\* no notifications.json, which loads as a file without profiles and overrides
NoConfig == [profiles |-> <<>>, user_profiles |-> <<>>]

\* NotificationManager._save_config: the profiles by name and the overrides
save_config(ps, overrides) == [profiles |-> ps, user_profiles |-> overrides]

\* NotificationManager.create_profile: the profile, enabled, is stored under its name
\* (over the one that was there) and the configuration is saved
create_profile(ps, overrides, name, title_template, message_template, priority) ==
    LET stored == Put(ps, name, NotificationProfile(name, title_template, message_template,
                                                    priority, TRUE)) IN
    [profiles |-> stored, config_file |-> save_config(stored, overrides), returned |-> TRUE]

\* variant: the override is stored whatever the name
set_user_profile_unchecked(ps, overrides, file, user_id, profile_name) ==
    LET stored == Put(overrides, user_id, profile_name) IN
    [user_profiles |-> stored, config_file |-> save_config(ps, stored), returned |-> TRUE]

\* NotificationManager.set_user_profile: a name that is no profile returns False before
\* anything is stored or saved
set_user_profile(ps, overrides, file, user_id, profile_name) ==
    IF profile_name \notin DOMAIN ps
    THEN [user_profiles |-> overrides, config_file |-> file, returned |-> FALSE]
    ELSE LET stored == Put(overrides, user_id, profile_name) IN
         [user_profiles |-> stored, config_file |-> save_config(ps, stored),
          returned |-> TRUE]

\* a call of create_profile or set_user_profile, as the last call on the manager
ProfileCall(op, user_id, name, given, returned) ==
    [user_id |-> user_id, given |-> given, returned |-> returned]
    @@ [NotifyIdle EXCEPT !.op = op, !.profile_name = name]

CreateProfile(name, title_template, message_template, priority) ==
    LET r == create_profile(profiles, user_profiles, name, title_template,
                            message_template, priority) IN
    /\ profiles' = r.profiles
    /\ config_file' = r.config_file
    /\ nlast' = ProfileCall("create_profile", "", name,
                             <<title_template, message_template, priority>>, r.returned)
    /\ UNCHANGED <<user_profiles, notify_status, processed_notifications, fresh_keys,
                   notification_start_time, notification_queue, unfinished_tasks,
                   engineVars, probeVars, builderVars, statusVars, appVars,
                   running, worker, delivered, cleanup, saved>>

SetUserProfile(user_id, profile_name) ==
    LET r == set_user_profile(profiles, user_profiles, config_file, user_id,
                              profile_name) IN
    /\ user_profiles' = r.user_profiles
    /\ config_file' = r.config_file
    /\ nlast' = ProfileCall("set_user_profile", user_id, profile_name, <<>>, r.returned)
    /\ UNCHANGED <<profiles, notify_status, processed_notifications, fresh_keys,
                   notification_start_time, notification_queue, unfinished_tasks,
                   engineVars, probeVars, builderVars, statusVars, appVars,
                   running, worker, delivered, cleanup, saved>>

\* the notifications.json files of the model: none; one with a custom profile, a
\* disabled "default" and an override; one with a disabled profile and an override
\* that names no profile
Configs ==
    { NoConfig,
      [profiles |-> [name \in {"p1", "default"} |->
                        IF name = "p1"
                        THEN NotificationProfile("p1", <<"{sender}">>,
                                                 <<"{sender}", ": ", "{content}">>, "HIGH", TRUE)
                        ELSE NotificationProfile("default", <<"Slack Message">>,
                                                 <<"New message from ", "{sender}">>,
                                                 "MEDIUM", FALSE)],
       user_profiles |-> [u \in {"U2"} |-> "p1"]],
      [profiles |-> [name \in {"quiet"} |->
                        NotificationProfile("quiet", <<"{user}">>, <<"{content}">>,
                                            "LOW", FALSE)],
       user_profiles |-> [u \in {"U1"} |-> "gone"]] }

\* NotificationManager._load_config followed by _init_default_profiles
load_config(config) ==
    [name \in DOMAIN config.profiles \cup DOMAIN DefaultProfiles |->
        IF name \in DOMAIN config.profiles THEN config.profiles[name]
        ELSE DefaultProfiles[name]]

\* NotificationManager.__init__
InitNotify ==
    /\ \E config \in Configs :
          /\ profiles = load_config(config)
          /\ user_profiles = config.user_profiles
          /\ config_file = config
    /\ notify_status = "ACTIVE"
    /\ processed_notifications = {}
    /\ fresh_keys = 0
    /\ notification_start_time \in StartTimes
    /\ notification_queue = <<>>
    /\ nlast = NotifyIdle
    /\ unfinished_tasks = 0

\* RuleEngine.__init__
InitEngine ==
    /\ rules = <<>>
    /\ current_status = "ACTIVE"
    /\ processed_messages = {}
    /\ fresh_ids = 0
    /\ start_time \in StartTimes
    /\ last = Idle
    /\ seen = [i \in TrackedIds |-> "no"]

\* the manager as constructed with no configuration file, at the engine's start time
NotifyAtRest ==
    /\ profiles = DefaultProfiles
    /\ user_profiles = <<>>
    /\ config_file = NoConfig
    /\ notify_status = "ACTIVE"
    /\ processed_notifications = {}
    /\ fresh_keys = 0
    /\ notification_start_time = start_time
    /\ notification_queue = <<>>
    /\ nlast = NotifyIdle
    /\ unfinished_tasks = 0

\* the engine as constructed, at the manager's start time
EngineAtRest ==
    /\ rules = <<>>
    /\ current_status = "ACTIVE"
    /\ processed_messages = {}
    /\ fresh_ids = 0
    /\ start_time = notification_start_time
    /\ last = Idle
    /\ seen = [i \in TrackedIds |-> "no"]

ProbeIdle == [op |-> "none"]

-----------------------------------------------------------------------------
(* The rule builder as a state machine: a chain of calls that ends with done() *)

BuilderIdle ==
    [op |-> "none", raised |-> FALSE, builder |-> RuleBuilder, rule |-> NoRule,
     rules |-> <<>>, after |-> <<>>, arg |-> ""]

\* a call of the chain that leaves the engine alone; a call that raises changes nothing
BuilderCall(op, r) ==
    /\ chain = "open"
    /\ builder' = r.builder
    /\ built' = [BuilderIdle EXCEPT !.op = IF r.raised THEN op ELSE "call",
                                   !.raised = r.raised]
    /\ UNCHANGED <<chain, slack, engineVars, notifyVars, probeVars, statusVars, appVars, threadVars>>

Returns(b) == [raised |-> FALSE, builder |-> b]

\* RuleBuilder.__init__, as in EasySlack.when: a new builder for the engine
NewBuilder ==
    /\ builder' = RuleBuilder
    /\ chain' = "open"
    /\ built' = BuilderIdle
    /\ UNCHANGED <<slack, engineVars, notifyVars, probeVars, statusVars, appVars, threadVars>>

When(name) == BuilderCall("when", Returns(when(builder, name)))

\* a from_person call, recorded with its argument
FromPerson(identifier) ==
    LET r == from_person(builder, slack, identifier) IN
    /\ chain = "open"
    /\ Len(r.builder.conditions) <= MaxConditions
    /\ builder' = r.builder
    /\ built' = [BuilderIdle EXCEPT !.op = "from_person", !.raised = r.raised,
                                   !.arg = identifier]
    /\ UNCHANGED <<chain, slack, engineVars, notifyVars, probeVars, statusVars, appVars,
                   threadVars>>

InChannel(channel_id) ==
    /\ Len(in_channel(builder, channel_id).conditions) <= MaxConditions
    /\ BuilderCall("in_channel", Returns(in_channel(builder, channel_id)))

Containing(pattern) ==
    /\ Len(containing(builder, pattern).conditions) <= MaxConditions
    /\ BuilderCall("containing", Returns(containing(builder, pattern)))

OfType(message_type) ==
    /\ Len(of_type(builder, message_type).conditions) <= MaxConditions
    /\ BuilderCall("of_type", Returns(of_type(builder, message_type)))

WithPriority(priority) == BuilderCall("with_priority", Returns(with_priority(builder, priority)))

AddException(entity_id) == BuilderCall("add_exception", Returns(add_exception(builder, entity_id)))

PlaySound(profile_name, message) ==
    /\ Len(builder.actions) < MaxActions
    /\ BuilderCall("play_sound", Returns(play_sound(builder, profile_name, message)))

Speak(message) ==
    /\ Len(builder.actions) < MaxActions
    /\ BuilderCall("speak", Returns(speak(builder, message)))

\* RuleBuilder.done: the chain ends when the rule is registered
Done ==
    LET r == done(builder, rules) IN
    /\ chain = "open"
    /\ Len(r.rules) <= MaxRules
    /\ rules' = r.rules
    /\ chain' = IF r.raised THEN "open" ELSE "done"
    /\ built' = [op |-> "done", raised |-> r.raised, builder |-> builder, rule |-> r.rule,
                 rules |-> rules, after |-> r.rules, arg |-> ""]
    /\ last' = Idle
    /\ UNCHANGED <<builder, slack, current_status, processed_messages, fresh_ids, start_time,
                   seen, notifyVars, probeVars, statusVars, appVars, threadVars>>

\* RuleEngine.set_slack_client, at the end of a login
SetSlackClient(user_id) ==
    /\ slack' = Slack(user_id)
    /\ UNCHANGED <<builder, chain, built, engineVars, notifyVars, probeVars, statusVars, appVars, threadVars>>

\* no builder at work, the engine not yet attached to a slack instance
BuilderAtRest ==
    /\ builder = RuleBuilder
    /\ chain = "open"
    /\ built = BuilderIdle
    /\ slack = NoSlack

-----------------------------------------------------------------------------
(* The status manager as a state machine *)

\* the last call on the status manager; auto is the auto_buffer argument of the last
\* set_status, kept over the calls that follow it up to a cleanup
StatusIdle ==
    [op |-> "none", old |-> "ACTIVE", new |-> "ACTIVE", auto_buffer |-> TRUE, auto |-> TRUE,
     raised |-> "", calls |-> <<>>, summary |-> NoBufferedMessages, msg |-> NoMessage,
     returned |-> FALSE, buffer |-> NotificationBuffer(FALSE, <<>>, {}),
     listeners |-> <<>>]

\* EasySlack._handle_status_change, the listener the EasySlack object registers: when
\* the old status was a buffering one and there is a summary, a system notification
\* of timestamp 0 under the profile "default"
HandleStatusChange == "_handle_status_change"

SystemMessage(content) == Message("system", content, "system", "System", NoChannel, 0, "direct")

handle_status_change(old_status, buf, nm) ==
    IF should_buffer(old_status) /\ get_summary(buf) # NoBufferedMessages
    THEN LET n == notify(profiles, user_profiles, notify_status, nm.keys, nm.fresh,
                         notification_start_time, nm.heap,
                         SystemMessage(<<"While you were ", status_value(old_status), ": ">>
                                       \o get_summary(buf)),
                         "default") IN
         [keys |-> n.keys, fresh |-> n.fresh, heap |-> n.heap,
          unfinished |-> nm.unfinished + counted(n)]
    ELSE nm

\* what the listeners called by a set_status do to the notification manager
RECURSIVE run_listeners(_, _, _)
run_listeners(calls, buf, nm) ==
    IF calls = <<>> THEN nm
    ELSE run_listeners(Tail(calls), buf,
                       IF Head(calls)[1] = HandleStatusChange
                       THEN handle_status_change(Head(calls)[2], buf, nm)
                       ELSE nm)

\* StatusManager.set_status with the listeners it calls; the exception, if any, goes to
\* the caller
ManagerSetStatus(status, auto_buffer) ==
    LET r == set_status(manager_status, buffer, status_listeners, status, auto_buffer)
        nm == run_listeners(r.calls, r.buffer,
                            [keys |-> processed_notifications, fresh |-> fresh_keys,
                             heap |-> notification_queue,
                             unfinished |-> unfinished_tasks]) IN
    /\ manager_status' = r.current_status
    /\ buffer' = r.buffer
    /\ processed_notifications' = nm.keys
    /\ fresh_keys' = nm.fresh
    /\ notification_queue' = nm.heap
    /\ unfinished_tasks' = nm.unfinished
    /\ slast' = [StatusIdle EXCEPT !.op = "set_status", !.old = manager_status,
                                   !.new = status, !.auto_buffer = auto_buffer,
                                   !.auto = auto_buffer, !.raised = r.raised,
                                   !.calls = r.calls, !.summary = get_summary(r.buffer),
                                   !.buffer = buffer, !.listeners = status_listeners]
    /\ UNCHANGED <<status_listeners, profiles, user_profiles, notify_status,
                   notification_start_time, nlast, engineVars, probeVars, builderVars,
                   appVars, threadVars>>

\* a call that leaves the status and the listeners alone
BufferCall(op, m, returned, buf) ==
    /\ buffer' = buf
    /\ slast' = [StatusIdle EXCEPT !.op = op, !.auto = slast.auto, !.msg = m,
                                   !.returned = returned, !.buffer = buffer,
                                   !.listeners = status_listeners,
                                   !.old = manager_status, !.new = manager_status]
    /\ UNCHANGED <<manager_status, status_listeners, engineVars, notifyVars, probeVars,
                   builderVars, appVars, threadVars>>

\* StatusManager.should_buffer
ShouldBuffer(m) ==
    /\ Len(buffer.messages) < MaxBuffered
    /\ BufferCall("should_buffer", m, add_message(buffer, m).returned,
                  add_message(buffer, m).buffer)

\* StatusManager.add_buffer_exception
AddBufferException(entity_id) ==
    BufferCall("add_buffer_exception", NoMessage, FALSE,
               [buffer EXCEPT !.exceptions = buffer.exceptions \cup {entity_id}])

\* StatusManager.remove_buffer_exception
RemoveBufferException(entity_id) ==
    BufferCall("remove_buffer_exception", NoMessage, FALSE,
               [buffer EXCEPT !.exceptions = buffer.exceptions \ {entity_id}])

\* StatusManager.add_status_listener
AddStatusListener(listener) ==
    /\ Len(status_listeners) < MaxListeners
    /\ status_listeners' = Append(status_listeners, listener)
    /\ slast' = [StatusIdle EXCEPT !.op = "add_status_listener", !.auto = slast.auto,
                                   !.buffer = buffer, !.listeners = status_listeners,
                                   !.old = manager_status, !.new = manager_status]
    /\ UNCHANGED <<manager_status, buffer, engineVars, notifyVars, probeVars, builderVars,
                   appVars, threadVars>>

\* list.remove: the first occurrence goes, ValueError when there is none
remove(list, x) ==
    IF \E i \in 1..Len(list) : list[i] = x
    THEN LET k == CHOOSE i \in 1..Len(list) :
                     list[i] = x /\ \A j \in 1..(i - 1) : list[j] # x IN
         [raised |-> FALSE, list |-> SubSeq(list, 1, k - 1) \o SubSeq(list, k + 1, Len(list))]
    ELSE [raised |-> TRUE, list |-> list]

\* StatusManager.remove_status_listener
RemoveStatusListener(listener) ==
    /\ status_listeners' = remove(status_listeners, listener).list
    /\ slast' = [StatusIdle EXCEPT !.op = "remove_status_listener", !.auto = slast.auto,
                                   !.raised = IF remove(status_listeners, listener).raised
                                              THEN "ValueError" ELSE "",
                                   !.buffer = buffer, !.listeners = status_listeners,
                                   !.old = manager_status, !.new = manager_status]
    /\ UNCHANGED <<manager_status, buffer, engineVars, notifyVars, probeVars, builderVars,
                   appVars, threadVars>>

\* StatusManager.cleanup with no cleanup handler registered: the buffer and the
\* listeners are cleared
ManagerCleanup ==
    /\ buffer' = clear(buffer).buffer
    /\ status_listeners' = <<>>
    /\ slast' = [StatusIdle EXCEPT !.op = "cleanup", !.auto = FALSE,
                                   !.buffer = buffer, !.listeners = status_listeners,
                                   !.old = manager_status, !.new = manager_status]
    /\ UNCHANGED <<manager_status, engineVars, notifyVars, probeVars, builderVars, appVars, threadVars>>

\* StatusManager.__init__
InitStatusManager ==
    /\ manager_status = "ACTIVE"
    /\ buffer = NotificationBuffer(FALSE, <<>>, {})
    /\ status_listeners = <<>>
    /\ slast = StatusIdle

-----------------------------------------------------------------------------
(* sound_management.py: the worker thread and cleanup *)

NoItem ==
    [key |-> <<0, 0>>, title |-> <<>>, msg |-> <<>>,
     profile |-> NotificationProfile("", <<>>, <<>>, "MEDIUM", FALSE)]

\* the worker as started by __init__, about to test `while self.running`
WorkerAtLoop == [pc |-> "loop", item |-> NoItem]

\* `while self.running`: the thread ends when the flag is down
WorkerLoop ==
    /\ worker.pc = "loop"
    /\ worker' = [worker EXCEPT !.pc = IF running THEN "get" ELSE "exited"]
    /\ nlast' = NotifyIdle
    /\ UNCHANGED <<running, delivered, cleanup, saved, config_file, engineVars, probeVars, builderVars,
                   statusVars, appVars, profiles, user_profiles, notify_status, processed_notifications,
                   notification_start_time, notification_queue, fresh_keys,
                   unfinished_tasks>>

\* `self.notification_queue.get(timeout=0.1)`: queue.Empty on an empty queue and a
\* TypeError of the heap are both followed by the next turn of the loop
WorkerGet ==
    /\ worker.pc = "get"
    /\ IF notification_queue = <<>>
       THEN /\ worker' = WorkerAtLoop
            /\ UNCHANGED notification_queue
       ELSE LET r == heappop(notification_queue) IN
            /\ notification_queue' = r.heap
            /\ worker' = IF r.raised THEN WorkerAtLoop ELSE [pc |-> "send", item |-> r.item]
    /\ nlast' = NotifyIdle
    /\ UNCHANGED <<profiles, user_profiles, notify_status, processed_notifications,
                   notification_start_time, fresh_keys, unfinished_tasks, running,
                   delivered, cleanup, saved, config_file, engineVars, probeVars, builderVars,
                   statusVars, appVars>>

\* _send_notification, which catches what the backend raises, then task_done, whose
\* ValueError the loop catches
WorkerSend(failed) ==
    /\ worker.pc = "send"
    /\ delivered' = Append(delivered, [item |-> worker.item, failed |-> failed])
    /\ unfinished_tasks' = task_done(unfinished_tasks).unfinished
    /\ worker' = WorkerAtLoop
    /\ nlast' = NotifyIdle
    /\ UNCHANGED <<profiles, user_profiles, notify_status, processed_notifications,
                   notification_start_time, notification_queue, fresh_keys, running,
                   cleanup, saved, config_file, engineVars, probeVars, builderVars, statusVars, appVars>>

\* NotificationManager.cleanup up to its wait: `self.running = False`
Cleanup ==
    /\ cleanup.pc = "idle"
    /\ running' = FALSE
    /\ cleanup' = [pc |-> "join",
                   pending |-> {notification_queue[j] : j \in 1..Len(notification_queue)}]
    /\ nlast' = NotifyIdle
    /\ UNCHANGED <<worker, delivered, saved, config_file, engineVars, probeVars, builderVars,
                   statusVars, appVars, profiles, user_profiles, notify_status, processed_notifications,
                   notification_start_time, notification_queue, fresh_keys,
                   unfinished_tasks>>

\* `self.notification_queue.join()` returns when unfinished_tasks is zero
CleanupJoin ==
    /\ cleanup.pc = "join"
    /\ unfinished_tasks = 0
    /\ cleanup' = [cleanup EXCEPT !.pc = "drain"]
    /\ nlast' = NotifyIdle
    /\ UNCHANGED <<running, worker, delivered, saved, config_file, engineVars, probeVars, builderVars,
                   statusVars, appVars, profiles, user_profiles, notify_status, processed_notifications,
                   notification_start_time, notification_queue, fresh_keys,
                   unfinished_tasks>>

\* one turn of `while not self.notification_queue.empty()`: get_nowait and task_done,
\* whose TypeError or ValueError leaves cleanup; on an empty queue _save_config and
\* the return
CleanupDrain ==
    /\ cleanup.pc = "drain"
    /\ IF notification_queue = <<>>
       THEN /\ saved' = TRUE
            /\ config_file' = save_config(profiles, user_profiles)
            /\ cleanup' = [cleanup EXCEPT !.pc = "returned"]
            /\ UNCHANGED <<notification_queue, unfinished_tasks>>
       ELSE LET r == heappop(notification_queue)
                t == task_done(unfinished_tasks) IN
            /\ notification_queue' = r.heap
            /\ unfinished_tasks' = IF r.raised THEN unfinished_tasks ELSE t.unfinished
            /\ cleanup' = [cleanup EXCEPT !.pc = IF r.raised \/ t.raised THEN "raised"
                                                ELSE "drain"]
            /\ UNCHANGED <<saved, config_file>>
    /\ nlast' = NotifyIdle
    /\ UNCHANGED <<profiles, user_profiles, notify_status, processed_notifications,
                   notification_start_time, fresh_keys, running, worker, delivered,
                   engineVars, probeVars, builderVars, statusVars, appVars>>

\* NotificationManager.__init__: the flag up, the worker started, nothing delivered
InitThreads ==
    /\ running = TRUE
    /\ worker = WorkerAtLoop
    /\ delivered = <<>>
    /\ cleanup = [pc |-> "idle", pending |-> {}]
    /\ saved = FALSE

-----------------------------------------------------------------------------
(* easy_slack.py: the EasySlack object over its engine, status manager and
   notification manager *)

\* variant: the action's profile is not read
profile_of_default(action) == "default"

\* `action.get('profile', 'default')`; an action without the key has the profile ""
profile_of(action) == IF action.profile = "" THEN "default" ELSE action.profile

\* the loop of _handle_message over the actions: one notify call for every action of
\* type 'notify'; nm is the notification manager's cache and queue, log the calls made
RECURSIVE execute_actions(_, _, _, _)
execute_actions(actions, m, nm, log) ==
    IF actions = <<>> THEN [nm |-> nm, log |-> log]
    ELSE IF Head(actions).type # "notify" THEN execute_actions(Tail(actions), m, nm, log)
    ELSE LET n == notify(profiles, user_profiles, notify_status, nm.keys, nm.fresh,
                         notification_start_time, nm.heap, m, profile_of(Head(actions))) IN
         execute_actions(Tail(actions), m,
                         [keys |-> n.keys, fresh |-> n.fresh, heap |-> n.heap,
                          unfinished |-> nm.unfinished + counted(n)],
                         Append(log, [profile_name |-> profile_of(Head(actions)),
                                      enqueued |-> n.enqueued]))

AppCall(op, m, status, raised, buffered, actions, log) ==
    [op |-> op, msg |-> m, status |-> status, raised |-> raised, buffered |-> buffered,
     actions |-> actions, log |-> log,
     manager_status |-> manager_status, current_status |-> current_status,
     notify_status |-> notify_status, buffer |-> buffer, rules |-> rules,
     processed_messages |-> processed_messages,
     processed_notifications |-> processed_notifications,
     queue |-> notification_queue]

\* the event loop with nothing scheduled, the socket client's thread in no callback
IngestIdle == [scheduled |-> <<>>, presence |-> [pc |-> "idle", status |-> "ACTIVE"]]

AppIdle ==
    [op |-> "none", msg |-> NoMessage, status |-> "ACTIVE", raised |-> "",
     buffered |-> FALSE, actions |-> <<>>, log |-> <<>>,
     manager_status |-> "ACTIVE", current_status |-> "ACTIVE", notify_status |-> "ACTIVE",
     buffer |-> NotificationBuffer(FALSE, <<>>, {}), rules |-> <<>>,
     processed_messages |-> {}, processed_notifications |-> {}, queue |-> <<>>]

\* EasySlack.set_status: the status manager first, then the engine and the notification
\* manager; an exception of the first call is caught and logged, and the other two
\* objects keep their status
EasySetStatus(status) ==
    LET r == set_status(manager_status, buffer, status_listeners, status, TRUE)
        nm == run_listeners(r.calls, r.buffer,
                            [keys |-> processed_notifications, fresh |-> fresh_keys,
                             heap |-> notification_queue,
                             unfinished |-> unfinished_tasks]) IN
    /\ manager_status' = r.current_status
    /\ buffer' = r.buffer
    /\ current_status' = IF r.raised = "" THEN status ELSE current_status
    /\ notify_status' = IF r.raised = "" THEN status ELSE notify_status
    /\ processed_notifications' = nm.keys
    /\ fresh_keys' = nm.fresh
    /\ notification_queue' = nm.heap
    /\ unfinished_tasks' = nm.unfinished
    /\ alast' = AppCall("set_status", NoMessage, status, r.raised, FALSE, <<>>, <<>>)
    /\ UNCHANGED <<rules, processed_messages, fresh_ids, start_time, last, seen, profiles,
                   user_profiles, notification_start_time, nlast, status_listeners, slast,
                   probeVars, builderVars, threadVars, ingest>>

\* EasySlack._handle_message for an event already converted to a Message: a buffered
\* message stops there; otherwise the engine's actions of type 'notify' are handed to
\* the notification manager, in the order of the list
HandleMessageBody(m) ==
    LET b == add_message(buffer, m)
        r == process_message(rules, current_status, processed_messages, fresh_ids,
                             start_time, m)
        e == execute_actions(r.result, m,
                             [keys |-> processed_notifications, fresh |-> fresh_keys,
                              heap |-> notification_queue,
                              unfinished |-> unfinished_tasks], <<>>) IN
    IF b.returned
    THEN /\ buffer' = b.buffer
         /\ alast' = AppCall("handle_message", m, manager_status, "", TRUE, <<>>, <<>>)
         /\ UNCHANGED <<engineVars, notifyVars, manager_status, status_listeners, slast,
                        probeVars, builderVars, threadVars>>
    ELSE /\ Len(e.nm.heap) <= MaxQueue
         /\ rules' = r.rules
         /\ processed_messages' = r.ids
         /\ fresh_ids' = r.fresh
         /\ seen' = seen_after(m.id, r)
         /\ last' = [op |-> "process", msg |-> m, result |-> r.result,
                     status |-> current_status, rules |-> rules,
                     seen |-> IF m.id \in TrackedIds THEN seen[m.id] ELSE "no",
                     inserted |-> r.inserted, cleared |-> r.cleared,
                     size |-> Cardinality(processed_messages) + fresh_ids]
         /\ processed_notifications' = e.nm.keys
         /\ fresh_keys' = e.nm.fresh
         /\ notification_queue' = e.nm.heap
         /\ unfinished_tasks' = e.nm.unfinished
         /\ alast' = AppCall("handle_message", m, manager_status, "", FALSE, r.result, e.log)
         /\ UNCHANGED <<current_status, start_time, profiles, user_profiles, notify_status,
                        notification_start_time, nlast, statusVars, probeVars, builderVars, threadVars>>

\* the coroutine called on its own, the event loop left as it is
HandleMessage(m) == HandleMessageBody(m) /\ UNCHANGED ingest

\* a notify call made by the EasySlack object itself with one of its system messages
SystemNotice(op, content, profile_name) ==
    LET n == notify(profiles, user_profiles, notify_status, processed_notifications,
                    fresh_keys, notification_start_time, notification_queue,
                    SystemMessage(content), profile_name) IN
    /\ Len(n.heap) <= MaxQueue
    /\ processed_notifications' = n.keys
    /\ fresh_keys' = n.fresh
    /\ notification_queue' = n.heap
    /\ unfinished_tasks' = unfinished_tasks + counted(n)
    /\ alast' = AppCall(op, SystemMessage(content), manager_status, "", FALSE, <<>>,
                        <<[profile_name |-> profile_name, enqueued |-> n.enqueued]>>)
    /\ UNCHANGED <<engineVars, profiles, user_profiles, notify_status,
                   notification_start_time, nlast, statusVars, probeVars, builderVars,
                   threadVars, ingest>>

\* EasySlack.login when the database holds no tokens: the notice under the profile
\* "urgent", and False
LoginNotSetUp ==
    SystemNotice("login", "Workspace not set up. Please run setup first.", "urgent")

\* Database.get_user_by_email on the addresses of the model: one user is known
get_user_by_email(email) ==
    IF email = "ann@example.org" THEN [id |-> "U1", name |-> "Ann"]
    ELSE [id |-> "None", name |-> "None"]

\* f"User {email} not found"
user_not_found(email) ==
    CASE email = "zed@example.org" -> "User zed@example.org not found"
      [] OTHER -> "User not found"

\* EasySlack.add_exception: for a known user the call of status_manager.add_exception,
\* a method the StatusManager does not have (its method is add_buffer_exception), so
\* the AttributeError leaves add_exception before the notice; for an unknown address
\* the notice under the profile "warning"
EasyAddException(email) ==
    IF get_user_by_email(email).id # "None"
    THEN /\ alast' = AppCall("add_exception", NoMessage, manager_status, "AttributeError",
                             FALSE, <<>>, <<>>)
         /\ UNCHANGED <<engineVars, notifyVars, statusVars, probeVars, builderVars,
                        threadVars, ingest>>
    ELSE SystemNotice("add_exception", user_not_found(email), "warning")

\* websocket.py, handle_events for a message event, in the socket client's thread:
\* run_coroutine_threadsafe hands the coroutine _handle_message(event) to the event loop
MessageEvent(m) ==
    /\ Len(ingest.scheduled) < MaxScheduled
    /\ ingest' = [ingest EXCEPT !.scheduled = Append(@, m)]
    /\ UNCHANGED <<alast, engineVars, notifyVars, statusVars, probeVars, builderVars,
                   threadVars>>

\* the event loop runs the oldest coroutine handed to it; _handle_message has no await
\* in it, so the loop runs it to its end before it runs another coroutine
LoopRun ==
    /\ ingest.scheduled # <<>>
    /\ HandleMessageBody(Head(ingest.scheduled))
    /\ ingest' = [ingest EXCEPT !.scheduled = Tail(@)]

\* `presence == 'away'` / `presence == 'active'` in _handle_presence_change
presence_status(presence) == IF presence = "away" THEN "AWAY" ELSE "ACTIVE"

\* handle_events for a presence_change event of the user: _handle_presence_change is
\* a plain function, so `self._presence_handler(event)` runs it in the socket client's
\* thread, before run_coroutine_threadsafe is called (with None, a TypeError that
\* handle_events logs). This step is the first statement of EasySlack.set_status,
\* status_manager.set_status with its listeners, whose exception ends set_status.
PresenceEvent(presence) ==
    LET status == presence_status(presence)
        r == set_status(manager_status, buffer, status_listeners, status, TRUE)
        nm == run_listeners(r.calls, r.buffer,
                            [keys |-> processed_notifications, fresh |-> fresh_keys,
                             heap |-> notification_queue,
                             unfinished |-> unfinished_tasks]) IN
    /\ ingest.presence.pc = "idle"
    /\ manager_status' = r.current_status
    /\ buffer' = r.buffer
    /\ processed_notifications' = nm.keys
    /\ fresh_keys' = nm.fresh
    /\ notification_queue' = nm.heap
    /\ unfinished_tasks' = nm.unfinished
    /\ ingest' = [ingest EXCEPT !.presence = [pc |-> IF r.raised = "" THEN "engine"
                                                     ELSE "idle",
                                              status |-> status]]
    /\ UNCHANGED <<alast, engineVars, profiles, user_profiles, notify_status,
                   notification_start_time, nlast, status_listeners, slast, probeVars,
                   builderVars, threadVars>>

\* the same thread at `self.rule_engine.set_status(status)`
PresenceEngine ==
    /\ ingest.presence.pc = "engine"
    /\ current_status' = ingest.presence.status
    /\ ingest' = [ingest EXCEPT !.presence.pc = "notifier"]
    /\ UNCHANGED <<alast, rules, processed_messages, fresh_ids, start_time, last, seen,
                   notifyVars, statusVars, probeVars, builderVars, threadVars>>

\* the same thread at `self.notify_manager.set_status(status)`, the last statement of
\* set_status that has an effect
PresenceNotifier ==
    /\ ingest.presence.pc = "notifier"
    /\ notify_status' = ingest.presence.status
    /\ ingest' = [ingest EXCEPT !.presence.pc = "idle"]
    /\ UNCHANGED <<alast, engineVars, profiles, user_profiles, processed_notifications,
                   notification_start_time, notification_queue, fresh_keys, nlast,
                   unfinished_tasks, statusVars, probeVars, builderVars, threadVars>>

\* EasySlack.__init__: the three objects as constructed, _handle_status_change
\* registered as the status manager's listener
InitEasySlack ==
    /\ InitEngine
    /\ NotifyAtRest
    /\ BuilderAtRest
    /\ manager_status = "ACTIVE"
    /\ buffer = NotificationBuffer(FALSE, <<>>, {})
    /\ status_listeners = <<Listener(HandleStatusChange, FALSE)>>
    /\ slast = StatusIdle
    /\ alast = AppIdle
    /\ ingest = IngestIdle
    /\ InitThreads
    /\ probe = ProbeIdle
    /\ component = "EasySlack"

\* the objects that a specification does not call, as constructed
OthersAtRest ==
    /\ BuilderAtRest
    /\ InitStatusManager
    /\ alast = AppIdle
    /\ ingest = IngestIdle
    /\ InitThreads

-----------------------------------------------------------------------------
(* The rule engine under calls of its methods *)

Init ==
    /\ InitEngine
    /\ NotifyAtRest
    /\ OthersAtRest
    /\ probe = ProbeIdle
    /\ component = "RuleEngine"

Next ==
    \/ \E m \in EngineMessages : ProcessMessage(m)
    \/ \E rule \in RuleCatalog : AddRule(rule)
    \/ \E rule_id \in RuleIds : RemoveRule(rule_id)
    \/ \E status \in UserStatus : SetStatus(status)

Spec == Init /\ [][Next]_vars

(* The rule engine fed with messages until its cache of processed ids overflows *)

RuleEveryMessage ==
    NotificationRule("rule_all", <<>>,
        << Action("notify", "default", Params("absent", <<>>), "MEDIUM", <<"rule_all", 1>>) >>,
        "MEDIUM", TRUE, {})

\* two messages whose ids come again, and messages of ids that never come again
CacheMessages ==
    { Message("m1", "urgent fix", "U1", SenderName("U1"), "C1", MaxTime, "channel"),
      Message("m2", "hello", "U2", SenderName("U2"), "U2", MaxTime, "direct"),
      Message(FreshId, "hello", "U1", SenderName("U1"), "C1", MaxTime, "channel") }

NextCache ==
    \/ \E m \in CacheMessages : ProcessMessage(m)
    \/ AddRule(RuleEveryMessage)

InitCache == Init /\ start_time = 1

SpecCache == InitCache /\ [][NextCache]_vars

(* The notification manager under calls of its methods *)

NotifyMessages ==
    { Message("m1", "urgent fix", "U1", SenderName("U1"), "C1", t, "channel") : t \in Timestamps }
    \cup { Message("m2", "hello", "U2", SenderName("U2"), "U2", t, "direct") : t \in Timestamps }

NotifyNames == {None, "quiet"}

ProfileCatalog ==
    { NotificationProfile("quiet", <<"Slack Message">>, <<"New message from ", "{sender}">>,
                          "LOW", TRUE) }

InitNotifySpec ==
    /\ InitNotify
    /\ EngineAtRest
    /\ OthersAtRest
    /\ probe = ProbeIdle
    /\ component = "NotificationManager"

NextNotify ==
    \/ \E m \in NotifyMessages, name \in NotifyNames : Notify(m, name)
    \/ \E status \in UserStatus : SetNotifyStatus(status)
    \/ \E p \in ProfileCatalog :
          CreateProfile(p.name, p.title_template, p.message_template, p.priority)
    \/ \E name \in {"p1", "gone"} : SetUserProfile("U2", name)

SpecNotify == InitNotifySpec /\ [][NextNotify]_vars

(* Either object under calls of its methods *)

InitObjects == Init \/ InitNotifySpec

NextObjects ==
    \/ component = "RuleEngine" /\ Next
    \/ component = "NotificationManager" /\ NextNotify

SpecObjects == InitObjects /\ [][NextObjects]_vars

(* The functions of enums.py and models.py on their own *)

ProbeConditions ==
    { c1 \o c2 \o c3 \o c4 :
        c1 \in {<<>>, << <<"sender", "U1">> >>, << <<"sender", "self">> >>},
        c2 \in {<<>>, << <<"channel", "C1">> >>},
        c3 \in {<<>>, << <<"content", "urgent">> >>, << <<"content", "(">> >>},
        c4 \in {<<>>, << <<"message_type", "direct">> >>} }

ProbeRules ==
    { NotificationRule("rule_probe", conditions, <<>>, "MEDIUM", enabled, exceptions) :
        conditions \in ProbeConditions, enabled \in BOOLEAN, exceptions \in SUBSET {"U1", "U2"} }

ProbeMessages ==
    { Message("m1", content, sender_id, SenderName(sender_id), channel_id, MaxTime, type) :
        content \in {"urgent fix", "hello"}, sender_id \in {"U1", "U2"},
        channel_id \in {"C1", "U2"}, type \in {"direct", "channel"} }

Probe(op, priority, status, rule, msg, out) ==
    [op |-> op, priority |-> priority, status |-> status, rule |-> rule, msg |-> msg,
     out |-> out]

CheckBreakThrough(priority, status) ==
    /\ probe = ProbeIdle
    /\ probe' = Probe("can_break_through", priority, status, RuleEveryMessage, NoMessage,
                      Bool(can_break_through(priority, status)))
    /\ UNCHANGED <<engineVars, notifyVars, component, otherVars>>

CheckMatches(rule, m) ==
    /\ probe = ProbeIdle
    /\ probe' = Probe("matches", "MEDIUM", "ACTIVE", rule, m, matches(rule, m))
    /\ UNCHANGED <<engineVars, notifyVars, component, otherVars>>

InitFunctions ==
    /\ InitEngine
    /\ NotifyAtRest
    /\ OthersAtRest
    /\ probe = ProbeIdle
    /\ component = "functions"

NextFunctions ==
    \/ \E priority \in NotificationPriority, status \in UserStatus :
          CheckBreakThrough(priority, status)
    \/ \E rule \in ProbeRules, m \in ProbeMessages : CheckMatches(rule, m)

SpecFunctions == InitFunctions /\ [][NextFunctions]_vars

(* A rule builder under the calls of one chain, and the engine it registers with *)

BuilderNames == {"", "Ann", "Team Chat"}

BuilderPersons == {"U1", "Self", "ann@example.org", "zed@example.org"}

InitBuilder ==
    /\ InitEngine
    /\ start_time = 1
    /\ NotifyAtRest
    /\ OthersAtRest
    /\ probe = ProbeIdle
    /\ component = "RuleBuilder"

NextBuilder ==
    \/ \E name \in BuilderNames : When(name)
    \/ \E identifier \in BuilderPersons : FromPerson(identifier)
    \/ InChannel("C1")
    \/ Containing("urgent")
    \/ OfType("channel")
    \/ WithPriority("HIGH")
    \/ AddException("U2")
    \/ PlaySound("dm", <<>>)
    \/ Speak(<<"{sender}", " says ", "{content}">>)
    \/ Done
    \/ SetSlackClient("U2")
    \/ AddRule(RuleAnn)

SpecBuilder == InitBuilder /\ [][NextBuilder]_vars

(* Rules registered by add_rule and by builders, one builder after the other, and the
   messages processed under them *)

RegistryRules == {RuleAnn, RuleAnnSelf}

RegistryMessages ==
    { Message("m1", "urgent fix", "U1", SenderName("U1"), "C1", MaxTime, "channel"),
      Message("m2", "hello", "U2", SenderName("U2"), "U2", MaxTime, "direct") }

NextRegistry ==
    \/ NewBuilder
    \/ \E name \in {"Ann", "Team Chat"} : When(name)
    \/ PlaySound("urgent", <<>>)
    \/ Done
    \/ \E rule \in RegistryRules : AddRule(rule)
    \/ \E m \in RegistryMessages : ProcessMessage(m)

SpecRegistry == InitBuilder /\ [][NextRegistry]_vars

(* A status manager under calls of its methods *)

StatusListeners ==
    {Listener("log", FALSE), Listener("faulty", TRUE), Listener("announce", FALSE)}

InitStatus ==
    /\ InitEngine
    /\ start_time = 1
    /\ NotifyAtRest
    /\ BuilderAtRest
    /\ InitStatusManager
    /\ alast = AppIdle
    /\ ingest = IngestIdle
    /\ InitThreads
    /\ probe = ProbeIdle
    /\ component = "StatusManager"

NextBuffer ==
    \/ \E status \in UserStatus, auto_buffer \in BOOLEAN : ManagerSetStatus(status, auto_buffer)
    \/ \E m \in RegistryMessages : ShouldBuffer(m)
    \/ \E entity_id \in {"U1", "U2"} : AddBufferException(entity_id)
    \/ RemoveBufferException("U2")
    \/ ManagerCleanup

NextStatus ==
    \/ NextBuffer
    \/ \E listener \in StatusListeners : AddStatusListener(listener)
    \/ \E listener \in StatusListeners : RemoveStatusListener(listener)

SpecStatus == InitStatus /\ [][NextStatus]_vars

(* A notification buffer that is constructed enabled or not, inside a status manager *)

InitBuffer ==
    /\ InitEngine
    /\ start_time = 1
    /\ NotifyAtRest
    /\ BuilderAtRest
    /\ manager_status = "ACTIVE"
    /\ \E enabled \in BOOLEAN : buffer = NotificationBuffer(enabled, <<>>, {})
    /\ status_listeners = <<>>
    /\ slast = StatusIdle
    /\ alast = AppIdle
    /\ ingest = IngestIdle
    /\ InitThreads
    /\ probe = ProbeIdle
    /\ component = "NotificationBuffer"

SpecBuffer == InitBuffer /\ [][NextBuffer]_vars

(* The EasySlack object under status changes, incoming messages and new rules *)

RuleDirect ==
    NotificationRule("rule_direct", << <<"message_type", "direct">> >>,
        << Action("notify", "dm", Params("tmpl", <<"{content}">>), "HIGH",
                  <<"rule_direct", 1>>) >>,
        "HIGH", TRUE, {})

AppRules == {RuleUrgent, RuleDirect}

NextApp ==
    \/ \E status \in UserStatus : EasySetStatus(status)
    \/ \E m \in RegistryMessages : HandleMessage(m)
    \/ \E rule \in AppRules : AddRule(rule)

SpecApp == InitEasySlack /\ [][NextApp]_vars

(* The notification manager with its worker thread, under notify and cleanup *)

\* a notifications.json with two LOW profiles that render the same texts
WorkerConfig ==
    [profiles |-> [name \in {"quiet", "hush"} |->
                      NotificationProfile(name, <<"Slack Message">>,
                                          <<"New message from ", "{sender}">>, "LOW", TRUE)],
     user_profiles |-> <<>>]

WorkerMessages ==
    { Message("m1", "urgent fix", "U1", SenderName("U1"), "C1", MaxTime, "channel"),
      Message("m2", "hello", "U2", SenderName("U2"), "U2", 1, "direct") }

\* the notify calls of the model: message and profile_name
WorkerCalls ==
    { <<m, name>> \in WorkerMessages \X {"quiet", "hush", "urgent"} :
         m.id = "m1" \/ name = "urgent" }

InitWorker ==
    /\ profiles = load_config(WorkerConfig)
    /\ user_profiles = WorkerConfig.user_profiles
    /\ config_file = WorkerConfig
    /\ notify_status = "ACTIVE"
    /\ processed_notifications = {}
    /\ fresh_keys = 0
    /\ notification_start_time = 1
    /\ notification_queue = <<>>
    /\ nlast = NotifyIdle
    /\ unfinished_tasks = 0
    /\ EngineAtRest
    /\ OthersAtRest
    /\ probe = ProbeIdle
    /\ component = "NotificationManager"

NextWorker ==
    \/ \E call \in WorkerCalls : Notify(call[1], call[2])
    \/ WorkerLoop
    \/ WorkerGet
    \/ \E failed \in BOOLEAN : WorkerSend(failed)
    \/ Cleanup
    \/ CleanupJoin
    \/ CleanupDrain

SpecWorker == InitWorker /\ [][NextWorker]_vars

(* The same under fair scheduling of the worker thread and of the thread in cleanup *)

FairWorker ==
    /\ WF_vars(WorkerLoop)
    /\ WF_vars(WorkerGet)
    /\ WF_vars(\E failed \in BOOLEAN : WorkerSend(failed))
    /\ WF_vars(CleanupJoin)
    /\ WF_vars(CleanupDrain)

SpecWorkerLive == SpecWorker /\ FairWorker

(* The EasySlack object with the worker thread of its notification manager *)

\* a notifications.json with the profile p1
EndToEndConfig ==
    [profiles |-> [name \in {"p1"} |->
                      NotificationProfile("p1", <<"{sender}">>,
                                          <<"{sender}", ": ", "{content}">>, "HIGH", TRUE)],
     user_profiles |-> <<>>]

EndToEndProfiles == load_config(EndToEndConfig)

EndToEndMessages ==
    RegistryMessages
    \cup { Message("m1", "urgent fix", "U1", SenderName("U1"), "C1", 0, "channel") }

EndToEndRules == {RuleAnn, RuleUrgent}

\* EasySlack.__init__ with that file in the configuration directory
InitEndToEnd ==
    /\ rules = <<>>
    /\ current_status = "ACTIVE"
    /\ processed_messages = {}
    /\ fresh_ids = 0
    /\ start_time = 1
    /\ last = Idle
    /\ seen = [i \in TrackedIds |-> "no"]
    /\ profiles = EndToEndProfiles
    /\ user_profiles = EndToEndConfig.user_profiles
    /\ config_file = EndToEndConfig
    /\ notify_status = "ACTIVE"
    /\ processed_notifications = {}
    /\ fresh_keys = 0
    /\ notification_start_time = 1
    /\ notification_queue = <<>>
    /\ nlast = NotifyIdle
    /\ unfinished_tasks = 0
    /\ BuilderAtRest
    /\ manager_status = "ACTIVE"
    /\ buffer = NotificationBuffer(FALSE, <<>>, {})
    /\ status_listeners = <<Listener(HandleStatusChange, FALSE)>>
    /\ slast = StatusIdle
    /\ alast = AppIdle
    /\ ingest = IngestIdle
    /\ InitThreads
    /\ probe = ProbeIdle
    /\ component = "EasySlack"

NextEndToEnd ==
    \/ \E status \in {"ACTIVE", "AWAY"} : EasySetStatus(status)
    \/ \E m \in EndToEndMessages : HandleMessage(m)
    \/ \E rule \in EndToEndRules : AddRule(rule)
    \/ WorkerLoop
    \/ WorkerGet
    \/ \E failed \in BOOLEAN : WorkerSend(failed)

SpecEndToEnd ==
    /\ InitEndToEnd
    /\ [][NextEndToEnd]_vars
    /\ WF_vars(WorkerLoop)
    /\ WF_vars(WorkerGet)
    /\ WF_vars(\E failed \in BOOLEAN : WorkerSend(failed))

(* The EasySlack object with its worker thread, under the calls that make system
   notifications *)

NextSystem ==
    \/ \E status \in {"ACTIVE", "AWAY"} : EasySetStatus(status)
    \/ \E m \in EndToEndMessages : HandleMessage(m)
    \/ \E rule \in EndToEndRules : AddRule(rule)
    \/ \E email \in {"ann@example.org", "zed@example.org"} : EasyAddException(email)
    \/ LoginNotSetUp
    \/ WorkerLoop
    \/ WorkerGet
    \/ \E failed \in BOOLEAN : WorkerSend(failed)

SpecSystem == InitEndToEnd /\ [][NextSystem]_vars

(* The EasySlack object with per-sender overrides set on its notification manager *)

NextOverride ==
    \/ \E name \in {"dm", "gone"} : SetUserProfile("U1", name)
    \/ \E m \in RegistryMessages : HandleMessage(m)
    \/ \E rule \in EndToEndRules : AddRule(rule)
    \/ \E status \in {"ACTIVE", "AWAY"} : EasySetStatus(status)

SpecOverride == InitEndToEnd /\ [][NextOverride]_vars

(* A new notification manager, no notifications.json on disk, under create_profile
   and set_user_profile *)

ProfileInputs ==
    { NotificationProfile("p1", <<"{sender}">>, <<"{sender}", ": ", "{content}">>,
                          "HIGH", TRUE),
      NotificationProfile("p1", <<"Slack Message">>, <<"{content}">>, "LOW", TRUE),
      NotificationProfile("dm", <<"{sender}">>, <<"{content}">>, "LOW", TRUE) }

InitProfiles ==
    /\ InitEngine
    /\ NotifyAtRest
    /\ OthersAtRest
    /\ probe = ProbeIdle
    /\ component = "NotificationManager"

NextProfiles ==
    \/ \E p \in ProfileInputs :
          CreateProfile(p.name, p.title_template, p.message_template, p.priority)
    \/ \E user_id \in {"U1", "U2"}, name \in {"dm", "p1", "gone"} :
          SetUserProfile(user_id, name)

SpecProfiles == InitProfiles /\ [][NextProfiles]_vars

(* The EasySlack object behind the socket client: message events handed to the event
   loop, presence events handled in the socket client's thread *)

NextIngest ==
    \/ \E m \in RegistryMessages : MessageEvent(m)
    \/ LoopRun
    \/ \E presence \in {"away", "active"} : PresenceEvent(presence)
    \/ PresenceEngine
    \/ PresenceNotifier
    \/ \E rule \in EndToEndRules : AddRule(rule)

SpecIngest == InitEndToEnd /\ [][NextIngest]_vars

-----------------------------------------------------------------------------
(* Properties *)

\* the rule of the last call that has this id
RuleAt(rs, id) == CHOOSE r \in {rs[k] : k \in 1..Len(rs)} : r.id = id

\* the place of that rule in the order of evaluation
RulePlace(rs, id) == CHOOSE k \in 1..Len(rs) : rs[k].id = id

\* the actions of a result that come from one rule
FromRule(result, id) == SelectSeq(result, LAMBDA a : a.origin[1] = id)

\* the last call got past the start-time and duplicate checks
Evaluated == last.op = "process" /\ last.inserted

\* no rule of the last call raises on the message
Completes == \A k \in 1..Len(last.rules) : matches(last.rules[k], last.msg) # "raise"

\* the priority order LOW < MEDIUM < HIGH < CRITICAL of an action's tag
Rank(action) ==
    LET priority == IF action.priority = "absent" THEN "MEDIUM" ELSE upper(action.priority) IN
    CASE priority = "LOW" -> 1 [] priority = "MEDIUM" -> 2 [] priority = "HIGH" -> 3
      [] priority = "CRITICAL" -> 4

\* C1: can_break_through follows the truth table for every priority and status: ACTIVE
\* admits all four priorities, FOCUSED admits exactly HIGH and CRITICAL, DND admits
\* exactly CRITICAL, and AWAY admits all four priorities.
C1_TruthTable ==
    probe.op = "can_break_through" =>
        probe.out = Bool(CASE probe.status = "ACTIVE"  -> TRUE
                           [] probe.status = "FOCUSED" -> probe.priority \in {"HIGH", "CRITICAL"}
                           [] probe.status = "DND"     -> probe.priority = "CRITICAL"
                           [] probe.status = "AWAY"    -> TRUE)

C3_CacheCap ==
    /\ Cardinality(processed_messages) + fresh_ids <= 1000
    /\ last.op = "process" =>
          /\ last.cleared <=> (last.inserted /\ last.size = 1000)
          /\ last.cleared => processed_messages = {} /\ fresh_ids = 0
          /\ last.inserted /\ ~last.cleared =>
                Cardinality(processed_messages) + fresh_ids = last.size + 1
          /\ last.seen \in {"cleared_by_call", "cleared_later"} =>
                /\ last.inserted
                /\ Len(last.result) =
                      Len(evaluate_rules(1, last.rules, <<>>, last.msg, last.status).actions)

\* an id processed before the cache was cleared is processed again and yields actions
C3_Witness ==
    /\ last.op = "process" /\ last.seen = "cleared_later"
    /\ last.result # <<>>

\* C4: a message whose timestamp is before the engine's start time gets the empty list,
\* whatever the rules and the status, and leaves the engine as it was.
C4_StaleRejected ==
    last.op = "process" /\ last.msg.timestamp < start_time =>
        /\ last.result = <<>>
        /\ ~last.inserted
        /\ rules = last.rules

\* a stale message with an unseen id that the registered rules would act on
C4_Witness ==
    /\ last.op = "process" /\ last.msg.timestamp < start_time
    /\ last.msg.id \notin processed_messages
    /\ evaluate_rules(1, last.rules, <<>>, last.msg, last.status).actions # <<>>

\* C5: every action returned comes from a rule whose priority can break through the
\* status at the time of the call; a matching HIGH rule yields no action under DND and,
\* when the evaluation runs to its end, yields its actions under FOCUSED.
C5_StatusGate ==
    last.op = "process" =>
        /\ \A i \in 1..Len(last.result) :
              can_break_through(RuleAt(last.rules, last.result[i].origin[1]).priority,
                                last.status)
        /\ \A k \in 1..Len(last.rules) :
              LET r == last.rules[k] IN
              r.priority = "HIGH" /\ matches(r, last.msg) = "true" =>
                 /\ last.status = "DND" => FromRule(last.result, r.id) = <<>>
                 /\ last.status = "FOCUSED" /\ last.inserted /\ Completes =>
                       /\ FromRule(last.result, r.id) # <<>>
                       /\ Len(FromRule(last.result, r.id)) =
                             Len(process_actions(r.actions, last.msg).processed)

\* a matching HIGH rule held back under DND
C5_Witness ==
    /\ Evaluated /\ last.status = "DND" /\ last.result = <<>>
    /\ \E k \in 1..Len(last.rules) :
          /\ last.rules[k].priority = "HIGH"
          /\ matches(last.rules[k], last.msg) = "true"

\* C6: a rule whose exceptions contain the sender of a message does not match it,
\* whatever its conditions (none included) and the other fields of the message.
C6_ExceptionsShortCircuit ==
    probe.op = "matches" /\ probe.msg.sender_id \in probe.rule.exceptions =>
        probe.out = "false"

\* an enabled rule whose conditions all hold for a message of an excepted sender
C6_Witness ==
    /\ probe.op = "matches" /\ probe.msg.sender_id \in probe.rule.exceptions
    /\ probe.rule.enabled
    /\ probe.rule.conditions # <<>>
    /\ check_conditions(probe.rule.conditions, probe.msg) = "true"
    /\ probe.out = "false"

\* the profile name a notify call settles on: the sender's override, else the argument,
\* else "default"
Effective(call) ==
    IF call.msg.sender_id \in DOMAIN user_profiles THEN user_profiles[call.msg.sender_id]
    ELSE IF call.profile_name # None THEN call.profile_name
    ELSE "default"

\* C7: no action returned by process_message comes from a disabled rule, and notify
\* puts nothing on the queue when the profile it settles on is missing or disabled; the
\* profile of every queued item is an enabled one.
C7_DisabledNeverDelivers ==
    /\ last.op = "process" =>
          \A i \in 1..Len(last.result) :
             RuleAt(last.rules, last.result[i].origin[1]).enabled
    /\ nlast.op = "notify" /\ nlast.enqueued =>
          /\ Effective(nlast) \in DOMAIN profiles
          /\ profiles[Effective(nlast)].enabled
    /\ nlast.op = "notify" /\ ~nlast.enqueued => notification_queue = nlast.queue
    /\ \A i \in 1..Len(notification_queue) : notification_queue[i].profile.enabled

\* a fresh notification, admitted by the status, whose profile exists but is disabled
C7_Witness ==
    /\ nlast.op = "notify" /\ nlast.inserted /\ ~nlast.enqueued
    /\ Effective(nlast) \in DOMAIN profiles
    /\ ~profiles[Effective(nlast)].enabled
    /\ can_break_through(profiles[Effective(nlast)].priority, nlast.status)
    /\ ~format_message(profiles[Effective(nlast)], nlast.msg).raised

\* C8: the list returned by process_message is in descending order of priority under
\* LOW < MEDIUM < HIGH < CRITICAL: no action comes before one of higher priority.
C8_PriorityDescending ==
    last.op = "process" =>
        \A i, j \in 1..Len(last.result) :
           i < j => Rank(last.result[i]) >= Rank(last.result[j])

\* C9: the sort is stable: two returned actions of equal priority stand in the order in
\* which their rules were evaluated and, within one rule, in the order of its list.
C9_StableSort ==
    last.op = "process" =>
        \A i, j \in 1..Len(last.result) :
           LET a == last.result[i]
               b == last.result[j]
               pa == RulePlace(last.rules, a.origin[1])
               pb == RulePlace(last.rules, b.origin[1]) IN
           i < j /\ Rank(a) = Rank(b) =>
              pa < pb \/ (pa = pb /\ a.origin[2] < b.origin[2])

\* a result that the sort rearranged and that holds actions of equal priority from two
\* rules and from one rule
C9_Witness ==
    /\ Evaluated
    /\ last.result # evaluate_rules(1, last.rules, <<>>, last.msg, last.status).actions
    /\ \E i, j \in 1..Len(last.result) :
          /\ i < j /\ Rank(last.result[i]) = Rank(last.result[j])
          /\ last.result[i].origin[1] # last.result[j].origin[1]
    /\ \E i, j \in 1..Len(last.result) :
          /\ i < j /\ Rank(last.result[i]) = Rank(last.result[j])
          /\ last.result[i].origin[1] = last.result[j].origin[1]

\* C10: when a rule raises while it is evaluated, only that rule is skipped: every other
\* rule that matches and is admitted still has its actions in the result.
C10_OnlyFailingRuleSkipped ==
    Evaluated /\ ~Completes =>
        \A k \in 1..Len(last.rules) :
           LET r == last.rules[k] IN
           /\ matches(r, last.msg) = "true"
           /\ can_break_through(r.priority, last.status)
           => Len(FromRule(last.result, r.id)) =
                 Len(process_actions(r.actions, last.msg).processed)

\* C11: an action whose message template names a field outside sender, content,
\* channel and time is still returned, with the raw content of the message as its
\* message parameter; it is not dropped.
C11_TemplateFallback ==
    Evaluated /\ Completes =>
        \A k \in 1..Len(last.rules) :
           LET r == last.rules[k] IN
           matches(r, last.msg) = "true" /\ can_break_through(r.priority, last.status) =>
              \A i \in 1..Len(r.actions) :
                 r.actions[i].params.kind = "tmpl"
                 /\ format(r.actions[i].params.message, last.msg).raised
                 => \E j \in 1..Len(last.result) :
                       /\ last.result[j].origin = r.actions[i].origin
                       /\ last.result[j].params = Params("tmpl", <<last.msg.content>>)

\* the priority that the engine reads from an action's tag: NotificationPriority[tag.upper()]
Denotes(action) == upper(action.priority)

\* the last call was a done() that returned a rule
DoneReturned == built.op = "done" /\ ~built.raised

\* C12: whatever the order of the play_sound, speak and with_priority calls, every
\* action of the rule that done() returns carries, as the engine reads its tag, the
\* priority of the rule; a with_priority after play_sound rewrites the tag of the
\* action already added.
C12_PriorityLockStep ==
    DoneReturned =>
        /\ built.rule.priority = built.builder.priority
        /\ \A i \in 1..Len(built.rule.actions) :
              Denotes(built.rule.actions[i]) = built.rule.priority

\* a rule with a play_sound action and a speak action that were added under another
\* priority than the one the rule ends with
C12_Witness ==
    /\ DoneReturned
    /\ \E i, j \in 1..Len(built.rule.actions) :
          /\ built.rule.actions[i].type = "notify"
          /\ built.rule.actions[j].type = "speak"
          /\ built.builder.actions[i].origin[2] # built.rule.priority
          /\ built.builder.actions[j].origin[2] # built.rule.priority

\* the rules of a rule sequence that have this id
WithId(rs, id) == {k \in 1..Len(rs) : rs[k].id = id}

\* C13 (built.rules and built.after are the engine's rules before and after the call):
\* done() without a name raises and leaves the engine's rules as they were; with a
\* name it returns a rule, and the engine then holds that rule, once, under the id
\* derived from the name, and every rule of another id as before.
C13_DoneRegistersOrFails ==
    built.op = "done" =>
        /\ built.builder.name = "None" =>
              /\ built.raised
              /\ built.after = built.rules
        /\ built.builder.name \in {"Ann", "Team Chat"} =>
              /\ ~built.raised
              /\ built.rule.id = (IF built.builder.name = "Ann" THEN "rule_ann"
                                  ELSE "rule_team_chat")
              /\ Cardinality(WithId(built.after, built.rule.id)) = 1
              /\ \A k \in WithId(built.after, built.rule.id) : built.after[k] = built.rule
              /\ SelectSeq(built.after, LAMBDA r : r.id # built.rule.id)
                    = SelectSeq(built.rules, LAMBDA r : r.id # built.rule.id)
              /\ built.rule.conditions = built.builder.conditions
              /\ built.rule.exceptions = built.builder.exceptions
              /\ Len(built.rule.actions) = Len(built.builder.actions)

\* a done() that raises for want of a name, on a builder that holds a condition and an
\* action, while the engine holds a rule
C13_Witness ==
    /\ built.op = "done" /\ built.raised
    /\ built.builder.name = "None"
    /\ built.builder.actions # <<>> /\ built.builder.conditions # <<>>
    /\ built.rules # <<>>

\* no two rules of a rule sequence have the same id
UniqueIds(rs) == \A i, j \in 1..Len(rs) : rs[i].id = rs[j].id => i = j

\* after a write of a rule: it is the one rule of its id, the rules of the other ids
\* are as before
Replaces(before, after, rule) ==
    /\ Cardinality(WithId(after, rule.id)) = 1
    /\ RuleAt(after, rule.id) = rule
    /\ SelectSeq(after, LAMBDA r : r.id # rule.id)
          = SelectSeq(before, LAMBDA r : r.id # rule.id)

SameAction(a, b) == a.type = b.type /\ a.profile = b.profile /\ a.priority = b.priority

BufferErrors == {"start_buffering", "stop_buffering"}

\* the last call was should_buffer for a sender outside the exceptions, under a status
\* that the last set_status set with auto_buffer
FedWhile(statuses) ==
    /\ slast.op = "should_buffer" /\ slast.auto
    /\ manager_status \in statuses
    /\ slast.msg.sender_id \notin slast.buffer.exceptions

\* C15: set_status(new, auto_buffer=True) with new FOCUSED or DND returns with the
\* buffer enabled, whatever the status before, and should_buffer then returns true for
\* a sender that is not excepted.
C15_BufferingStarts ==
    /\ slast.op = "set_status" /\ slast.auto_buffer /\ slast.new \in {"FOCUSED", "DND"} =>
          /\ slast.raised \notin BufferErrors
          /\ buffer.enabled
    /\ FedWhile({"FOCUSED", "DND"}) => slast.returned

\* C16: set_status with auto_buffer from FOCUSED or DND to ACTIVE or AWAY returns with
\* the buffer disabled and its list of messages empty.
C16_BufferingStops ==
    /\ slast.op = "set_status" /\ slast.auto_buffer
    /\ slast.old \in {"FOCUSED", "DND"} /\ slast.new \in {"ACTIVE", "AWAY"}
    => /\ slast.raised \notin BufferErrors
       /\ ~buffer.enabled
       /\ buffer.messages = <<>>

\* C17: should_buffer returns true and appends the message exactly when the buffer is
\* enabled and the sender is not among its exceptions; otherwise it returns false and
\* the messages stay as they were; an excepted sender is buffered under no status.
C17_ShouldBuffer ==
    slast.op = "should_buffer" =>
        /\ slast.returned <=> (slast.buffer.enabled
                               /\ slast.msg.sender_id \notin slast.buffer.exceptions)
        /\ buffer.messages = IF slast.returned THEN Append(slast.buffer.messages, slast.msg)
                             ELSE slast.buffer.messages
        /\ buffer.enabled = slast.buffer.enabled
        /\ buffer.exceptions = slast.buffer.exceptions
        /\ \A i \in 1..Len(buffer.messages) :
              buffer.messages[i].sender_id \in buffer.exceptions =>
                 i <= Len(slast.buffer.messages)

\* an excepted sender is turned away by an enabled buffer that holds a message of
\* another sender, under a buffering status
C17_Witness ==
    /\ slast.op = "should_buffer" /\ ~slast.returned
    /\ slast.buffer.enabled /\ slast.buffer.messages # <<>>
    /\ slast.msg.sender_id \in slast.buffer.exceptions
    /\ manager_status \in {"FOCUSED", "DND"}

\* C18: after set_status(FOCUSED), should_buffer returns true for every message of a
\* sender that is not excepted, and the set_status(ACTIVE) that follows returns, with
\* the summary that its listeners can ask for naming every buffered sender with the
\* number of its messages.
C18_BufferingScenario ==
    /\ FedWhile({"FOCUSED"}) =>
          /\ slast.returned
          /\ buffer.messages = Append(slast.buffer.messages, slast.msg)
    /\ slast.op = "set_status" /\ slast.auto_buffer
       /\ slast.old = "FOCUSED" /\ slast.new = "ACTIVE" =>
          /\ slast.raised \notin BufferErrors
          /\ slast.summary = get_summary(slast.buffer)

\* C19: a set_status that gets to its listeners calls every one of them with (old, new)
\* in the order of registration and returns, also when one of them raises.
C19_ListenersIsolated ==
    slast.op = "set_status" /\ slast.raised \notin BufferErrors =>
        /\ slast.raised = ""
        /\ slast.calls = [i \in 1..Len(slast.listeners) |->
                             <<slast.listeners[i].id, slast.old, slast.new>>]

\* C20: buffering withholds only low and medium priority: when _handle_message runs
\* while the status is FOCUSED or DND, for a message that is neither stale nor a
\* duplicate and whose sender is not a buffer exception, every notify action of a
\* matching rule whose priority breaks through that status, with an enabled profile
\* whose priority breaks through it too, puts its notification on the queue.
C20_BreakThroughWhileBuffering ==
    ( /\ alast.op = "handle_message"
      /\ alast.manager_status \in {"FOCUSED", "DND"}
      /\ alast.msg.sender_id \notin alast.buffer.exceptions
      /\ alast.msg.timestamp >= start_time
      /\ alast.msg.timestamp >= notification_start_time
      /\ alast.msg.id \notin alast.processed_messages )
    => \A k \in 1..Len(alast.rules) : \A i \in 1..Len(alast.rules[k].actions) :
         LET rule == alast.rules[k]
             name == profile_of(rule.actions[i]) IN
         ( /\ matches(rule, alast.msg) = "true"
           /\ can_break_through(rule.priority, alast.manager_status)
           /\ rule.actions[i].type = "notify"
           /\ name \in DOMAIN profiles
           /\ profiles[name].enabled
           /\ can_break_through(profiles[name].priority, alast.manager_status)
           /\ <<alast.msg.id, name>> \notin alast.processed_notifications )
         => /\ Len(notification_queue) > Len(alast.queue)
            /\ \E j \in 1..Len(notification_queue) :
                 /\ notification_queue[j].profile = profiles[name]
                 /\ notification_queue[j].msg = format_message(profiles[name], alast.msg).msg

\* the dedup key of a notify call: message id and profile_name argument
KeyOf(call) == <<call.msg.id, call.profile_name>>

\* C21: a notify call whose message is older than the manager's start time adds
\* nothing to the queue, and neither does a call whose key (message id, profile_name
\* argument) is in the cache; a call that passes both tests leaves its key in the
\* cache unless the cache was cleared, so a second call with the same key adds nothing.
C21_StaleAndDuplicateDropped ==
    [][ nlast'.op = "notify" =>
          /\ ( \/ nlast'.msg.timestamp < notification_start_time
               \/ KeyOf(nlast') \in processed_notifications )
             => /\ notification_queue' = notification_queue
                /\ ~nlast'.enqueued
          /\ ( /\ nlast'.msg.timestamp >= notification_start_time
               /\ ~nlast'.cleared )
             => KeyOf(nlast') \in processed_notifications' ]_vars

\* a second call with a key already there, for a profile that would otherwise be queued
C21_Witness ==
    /\ nlast.op = "notify" /\ ~nlast.inserted
    /\ nlast.msg.timestamp >= notification_start_time
    /\ KeyOf(nlast) \in processed_notifications
    /\ Effective(nlast) \in DOMAIN profiles
    /\ profiles[Effective(nlast)].enabled
    /\ can_break_through(profiles[Effective(nlast)].priority, nlast.status)
    /\ Len(notification_queue) >= 1

\* how many entries of a queue equal x
Occurrences(queue, x) == Cardinality({j \in 1..Len(queue) : queue[j] = x})

\* the queue entry that a message makes under a profile
ItemFor(profile, m) ==
    [key |-> <<0 - priority_value(profile.priority), 0 - int(m.timestamp)>>,
     title |-> format_message(profile, m).title,
     msg |-> format_message(profile, m).msg,
     profile |-> profile]

\* after is before with one more entry x
OneMore(before, after, x) ==
    /\ Len(after) = Len(before) + 1
    /\ \A j \in 1..Len(after) :
          Occurrences(after, after[j]) =
             Occurrences(before, after[j]) + (IF after[j] = x THEN 1 ELSE 0)
    /\ \E j \in 1..Len(after) : after[j] = x

\* C22: notify settles on the sender's override if there is one, else on the
\* profile_name argument if one is given, else on "default"; what a notify call adds to
\* the queue is one entry, made under the profile of that name.
C22_ProfileResolution ==
    /\ nlast.op = "notify" /\ nlast.inserted => nlast.resolved = Effective(nlast)
    /\ nlast.op = "notify" /\ nlast.enqueued =>
          /\ Effective(nlast) \in DOMAIN profiles
          /\ OneMore(nlast.queue, notification_queue,
                     ItemFor(profiles[Effective(nlast)], nlast.msg))

\* an override that wins over a different profile_name argument
C22_Witness ==
    /\ nlast.op = "notify" /\ nlast.enqueued
    /\ nlast.msg.sender_id \in DOMAIN user_profiles
    /\ nlast.profile_name # None
    /\ nlast.profile_name \in DOMAIN profiles
    /\ nlast.profile_name # user_profiles[nlast.msg.sender_id]

\* the documented gate: ACTIVE and AWAY admit every priority, FOCUSED admits HIGH and
\* CRITICAL, DND admits CRITICAL
Admitted(priority, status) ==
    CASE status = "ACTIVE"  -> TRUE
      [] status = "AWAY"    -> TRUE
      [] status = "FOCUSED" -> priority \in {"HIGH", "CRITICAL"}
      [] status = "DND"     -> priority = "CRITICAL"

\* C23: an entry is put on the queue only while the priority of its profile breaks
\* through the manager's current status, and a notify call whose profile does not
\* break through leaves the queue as it was.
C23_StatusGateOnQueue ==
    nlast.op = "notify" =>
       /\ nlast.enqueued =>
             Admitted(profiles[Effective(nlast)].priority, nlast.status)
       /\ ( /\ Effective(nlast) \in DOMAIN profiles
            /\ ~Admitted(profiles[Effective(nlast)].priority, nlast.status) )
          => /\ ~nlast.enqueued
             /\ notification_queue = nlast.queue

\* a fresh notification for an enabled profile, kept off the queue by the status alone
C23_Witness ==
    /\ nlast.op = "notify" /\ nlast.inserted /\ ~nlast.enqueued
    /\ nlast.status \in {"FOCUSED", "DND"}
    /\ Effective(nlast) \in DOMAIN profiles
    /\ profiles[Effective(nlast)].enabled
    /\ ~Admitted(profiles[Effective(nlast)].priority, nlast.status)
    /\ ~format_message(profiles[Effective(nlast)], nlast.msg).raised
    /\ notification_queue # <<>>

\* entry a goes before entry b, or ties with it: higher priority value first, then the
\* larger whole-second timestamp (the keys are the negated numbers)
NotAfter(a, b) ==
    \/ a.key[1] < b.key[1]
    \/ a.key[1] = b.key[1] /\ a.key[2] <= b.key[2]

\* C24: when the worker's get finds the queue not empty, the worker takes an entry of
\* the highest priority among those queued and, among these, of the largest
\* whole-second timestamp, and the queue loses that entry and no other; so a CRITICAL
\* entry queued together with a LOW entry goes to the backend before it.
C24_HighestPriorityFirst ==
    [][ (worker.pc = "get" /\ worker'.pc # "get" /\ notification_queue # <<>>) =>
          /\ worker'.pc = "send"
          /\ \A j \in 1..Len(notification_queue) :
                NotAfter(worker'.item, notification_queue[j])
          /\ OneMore(notification_queue', notification_queue, worker'.item) ]_vars

\* the entries the worker has passed to _send_notification
Sent == {delivered[i].item : i \in 1..Len(delivered)}

\* C25: delivery is at most once: no entry is passed to the backend twice, and an
\* entry that was passed to it, failed or not, is neither on the queue again nor in
\* the worker's hands again.
C25_AtMostOnce ==
    /\ \A i, j \in 1..Len(delivered) : delivered[i].item = delivered[j].item => i = j
    /\ \A j \in 1..Len(notification_queue) : notification_queue[j] \notin Sent
    /\ worker.pc = "send" => worker.item \notin Sent

\* a failed delivery, another entry delivered after it, and the worker back at its loop
C25_Witness ==
    /\ Len(delivered) >= 2
    /\ delivered[1].failed
    /\ worker.pc = "loop"
    /\ notification_queue # <<>>

\* the entries that the notify calls of the model can put on the queue
WorkerItems == {ItemFor(load_config(WorkerConfig)[call[2]], call[1]) : call \in WorkerCalls}

Queued(x) == \E j \in 1..Len(notification_queue) : notification_queue[j] = x

SomeDeliveryFailed == \E i \in 1..Len(delivered) : delivered[i].failed

\* C26: a failed delivery does not stop the worker: as long as the manager is running,
\* an entry that is on the queue after a delivery has failed is eventually passed to
\* the backend.
C26_WorkerSurvivesFailure ==
    \A x \in WorkerItems :
       [](Queued(x) /\ SomeDeliveryFailed /\ running => <>(x \in Sent \/ ~running))

\* C27: cleanup always terminates: once it has been called it eventually returns,
\* with the configuration written, whatever the queue holds and wherever the worker
\* stands at the call.
C27_CleanupTerminates == [](cleanup.pc = "join" => <>(cleanup.pc = "returned" /\ saved))

\* C28: an entry that is on the queue when cleanup is called is not silently lost: it
\* is eventually passed to the backend by the worker, or cleanup gets past its wait
\* and discards it.
C28_QueuedItemsDrained ==
    \A x \in WorkerItems :
       [](cleanup.pc = "join" /\ x \in cleanup.pending
            => <>(x \in Sent \/ cleanup.pc = "returned"))

\* C29: once cleanup has been called the manager takes no new work: a notify call
\* made after that puts nothing on the queue.
C29_NoWorkAfterCleanup ==
    (nlast.op = "notify" /\ cleanup.pc # "idle") =>
        ~nlast.enqueued /\ notification_queue = nlast.queue

\* the rule of the end-to-end case in a rule list: enabled, HIGH, keyed on the sender of
\* m, with exactly one notify action, on profile p1
HighRuleFor(rs, m) ==
    \E k \in 1..Len(rs) :
       /\ rs[k].enabled /\ rs[k].priority = "HIGH"
       /\ rs[k].conditions = << <<"sender", m.sender_id>> >>
       /\ matches(rs[k], m) = "true"
       /\ Cardinality({i \in 1..Len(rs[k].actions) : rs[k].actions[i].type = "notify"}) = 1
       /\ \E i \in 1..Len(rs[k].actions) :
             rs[k].actions[i].type = "notify" /\ rs[k].actions[i].profile = "p1"

\* the last call handled a fresh message m from the rule's sender with every object
\* under ACTIVE, profile p1 enabled and no override for the sender
EndToEndCase(m) ==
    /\ alast.op = "handle_message" /\ alast.msg = m /\ ~alast.buffered
    /\ alast.manager_status = "ACTIVE" /\ alast.current_status = "ACTIVE"
    /\ alast.notify_status = "ACTIVE"
    /\ m.timestamp >= start_time /\ m.timestamp >= notification_start_time
    /\ m.id \notin alast.processed_messages
    /\ <<m.id, "p1">> \notin alast.processed_notifications
    /\ HighRuleFor(alast.rules, m)
    /\ "p1" \in DOMAIN profiles /\ profiles["p1"].enabled
    /\ m.sender_id \notin DOMAIN user_profiles

\* how often the entry x was passed to the backend
Deliveries(x) == Cardinality({i \in 1..Len(delivered) : delivered[i].item = x})

\* where the entries equal to x are: on the queue, in the worker's hands, delivered
Copies(x) ==
    Occurrences(notification_queue, x)
    + (IF worker.pc = "send" /\ worker.item = x THEN 1 ELSE 0)
    + Deliveries(x)

\* C30: end to end under ACTIVE: handling a fresh message from the sender of a
\* registered HIGH rule with one notify action on profile p1 makes one notify call for
\* p1, which puts one entry for p1 on the queue; that entry exists once (queued, in the
\* worker's hands or delivered), is delivered at most once, and is eventually passed
\* to the backend.
C30_EndToEnd ==
    /\ [](\A m \in EndToEndMessages :
            /\ Deliveries(ItemFor(EndToEndProfiles["p1"], m)) <= 1
            /\ EndToEndCase(m) =>
                  /\ Cardinality({i \in 1..Len(alast.log) :
                                     alast.log[i].profile_name = "p1"}) = 1
                  /\ \A i \in 1..Len(alast.log) :
                        alast.log[i].profile_name = "p1" => alast.log[i].enqueued
                  /\ Occurrences(alast.queue, ItemFor(EndToEndProfiles["p1"], m)) = 0
                  /\ Copies(ItemFor(EndToEndProfiles["p1"], m)) = 1)
    /\ \A m \in EndToEndMessages :
          EndToEndCase(m) ~> (Deliveries(ItemFor(EndToEndProfiles["p1"], m)) = 1)

\* the case has happened and the entry for p1 has been delivered
C30_Witness ==
    \E m \in EndToEndMessages :
       /\ EndToEndCase(m)
       /\ \E i \in 1..Len(delivered) : delivered[i].item = ItemFor(profiles["p1"], m)
       /\ notification_queue = <<>>

\* C31: callbacks run one at a time: a message handler never runs inside a presence
\* callback, so (the status changing through presence callbacks only, each of which
\* sets the status manager, the engine and the notification manager) it finds the three
\* objects under one status; and the socket events that carry one message id put at
\* most one entry per profile on the queue.
C31_CallbacksOneAtATime ==
    /\ alast.op = "handle_message" =>
          /\ alast.manager_status = alast.current_status
          /\ alast.current_status = alast.notify_status
    /\ \A m \in RegistryMessages : \A name \in DOMAIN profiles :
          Copies(ItemFor(profiles[name], m)) <= 1

\* C32: under every interleaving of notify and the worker's take, an entry that notify
\* put on the queue stays where the worker will find it: each step before cleanup
\* leaves the number of copies of every entry (queued, in the worker's hands,
\* delivered) as it was, except a notify that enqueues, which adds one; and notify is
\* never held up by the worker: it can be called while the worker is inside the
\* backend call.
C32_NoLostUpdates ==
    /\ [][ (cleanup.pc = "idle" /\ cleanup'.pc = "idle") =>
             \A x \in WorkerItems :
                Copies(x)' = Copies(x)
                             + (IF /\ nlast'.op = "notify" /\ nlast'.enqueued
                                   /\ x = ItemFor(profiles[nlast'.resolved], nlast'.msg)
                                THEN 1 ELSE 0) ]_vars
    /\ [](worker.pc = "send" /\ Len(notification_queue) < MaxQueue =>
             ENABLED (\E call \in WorkerCalls : Notify(call[1], call[2])))

\* the value stored under the key in a builder's conditions, "None" when the key is absent
ConditionOf(b, key) ==
    IF \E i \in 1..Len(b.conditions) : b.conditions[i][1] = key
    THEN (CHOOSE c \in {b.conditions[i] : i \in 1..Len(b.conditions)} : c[1] = key)[2]
    ELSE "None"

\* the conditions of a builder under the other keys
OtherConditions(b, key) == SelectSeq(b.conditions, LAMBDA c : c[1] # key)

\* a step that is a from_person call
FromPersonStep == built'.op = "from_person" /\ <<builder, built>>' # <<builder, built>>

\* C33: from_person("self") stores the authenticated user's id as the sender
\* condition; without an authenticated user id it raises, the builder's conditions
\* stay as they were and no rule is registered; an email address that is not resolved
\* (no slack instance, or the lookup finds nobody) is stored as it is written. The
\* conditions under other keys are left alone.
C33_FromPersonSelf ==
    [][ FromPersonStep =>
          LET identifier == built'.arg
              authenticated == slack.attached /\ slack.user_id # "None" IN
          /\ (lower(identifier) = "self" /\ authenticated) =>
                /\ ~built'.raised
                /\ ConditionOf(builder', "sender") = slack.user_id
          /\ (lower(identifier) = "self" /\ ~authenticated) =>
                /\ built'.raised
                /\ builder' = builder
                /\ rules' = rules
          /\ (IsEmail(identifier)
                /\ (~slack.attached \/ convert_email_to_user_id(identifier) = "None")) =>
                /\ ~built'.raised
                /\ ConditionOf(builder', "sender") = identifier
          /\ OtherConditions(builder', "sender") = OtherConditions(builder, "sender")
          /\ rules' = rules ]_vars

\* from_person("self") has raised before any login, on a builder that has a name
C33_Witness ==
    /\ built.op = "from_person" /\ built.raised
    /\ lower(built.arg) = "self" /\ ~slack.attached
    /\ builder.name # "None"

\* C34: process_message leaves the registered rules as they are: after a call the
\* engine holds the rules it held before the call, stored actions and parameter
\* templates included.
C34_RulesUnchanged == last.op = "process" => rules = last.rules

\* C35: after EasySlack.set_status(s) has returned, whatever s and whatever the status
\* before, the status manager, the rule engine and the notification manager all hold
\* the status s.
C35_ThreeStatusesAgree ==
    alast.op = "set_status" =>
        /\ manager_status = alast.status
        /\ current_status = alast.status
        /\ notify_status = alast.status

\* C36: after a set_status call with auto_buffer left at its default, the buffer is
\* enabled exactly when the status manager's current status is FOCUSED or DND.
C36_BufferingIffStatus ==
    slast.op = "set_status" /\ slast.auto_buffer =>
        (buffer.enabled <=> manager_status \in {"FOCUSED", "DND"})

\* the entries that are on the queue, in the worker's hands or passed to the backend
ItemsAnywhere ==
    {notification_queue[j] : j \in 1..Len(notification_queue)}
    \cup (IF worker.pc = "send" THEN {worker.item} ELSE {})
    \cup Sent

\* the system messages of the EasySlack object
SystemMessages ==
    {SystemMessage("Workspace not set up. Please run setup first."),
     SystemMessage(user_not_found("zed@example.org")),
     SystemMessage("Added exception for Ann"),
     SystemMessage("While you were focused: 1 message from Ann"),
     SystemMessage("While you were do_not_disturb: 1 message from Ann")}

\* C37: every entry on the queue, in the worker's hands or delivered was rendered from
\* a message whose timestamp is not earlier than the manager's start time, and none of
\* them was rendered from a system message of the EasySlack object, whose timestamp
\* is 0.
C37_NoSystemNotification ==
    \A x \in ItemsAnywhere :
       /\ \E m \in EndToEndMessages : \E name \in DOMAIN profiles :
             m.timestamp >= notification_start_time /\ x = ItemFor(profiles[name], m)
       /\ \A m \in SystemMessages \cup {alast.msg} : \A name \in DOMAIN profiles :
             m.timestamp < notification_start_time => x # ItemFor(profiles[name], m)

\* the setup notice was handed to notify while an entry was waiting, and an entry has
\* been delivered
C37_Witness ==
    /\ alast.op = "login" /\ alast.msg \in SystemMessages
    /\ alast.log = <<[profile_name |-> "urgent", enqueued |-> FALSE]>>
    /\ notification_queue # <<>>
    /\ delivered # <<>>

\* a step that is a process_message call, a step that is a notify call
ProcessStep == last'.op = "process" /\ last' # last

NotifyStep == nlast'.op = "notify" /\ nlast' # nlast

\* every rule that matches the message is turned away by the status gate
AllRejected(rs, m, status) ==
    /\ \A k \in 1..Len(rs) : matches(rs[k], m) # "raise"
    /\ \A k \in 1..Len(rs) :
          matches(rs[k], m) = "true" => ~can_break_through(rs[k].priority, status)

\* the profile of a notify call is missing or disabled, or the status gate turns it away
GateDrops(m, profile_name) ==
    LET name == IF m.sender_id \in DOMAIN user_profiles THEN user_profiles[m.sender_id]
                ELSE IF profile_name # None THEN profile_name ELSE "default" IN
    \/ name \notin DOMAIN profiles
    \/ ~profiles[name].enabled
    \/ ~can_break_through(profiles[name].priority, notify_status)

\* C38: both caches record the key before a gate is evaluated. A process_message call
\* with a message that is not stale and not in the cache, all of whose matching rules
\* the status gate rejects, returns nothing and leaves the id in the cache (unless the
\* insertion cleared the cache); a notify call with a key that is not stale and not in
\* the cache, dropped for a missing or disabled profile or by the status gate, leaves
\* the key in the cache likewise. A call whose id or key is in the cache returns or
\* queues nothing and changes nothing, whatever the status and the profiles are by then.
C38_KeyRecordedBeforeGates ==
    [][ /\ ( /\ ProcessStep
             /\ last'.msg.timestamp >= start_time
             /\ last'.msg.id \notin processed_messages
             /\ AllRejected(rules, last'.msg, current_status) )
           => /\ last'.result = <<>>
              /\ last'.inserted
              /\ last'.msg.id \in processed_messages' \/ last'.cleared
        /\ (ProcessStep /\ last'.msg.id \in processed_messages)
           => /\ last'.result = <<>>
              /\ rules' = rules
              /\ processed_messages' = processed_messages
        /\ ( /\ NotifyStep
             /\ nlast'.msg.timestamp >= notification_start_time
             /\ KeyOf(nlast') \notin processed_notifications
             /\ GateDrops(nlast'.msg, nlast'.profile_name) )
           => /\ ~nlast'.enqueued
              /\ notification_queue' = notification_queue
              /\ nlast'.inserted
              /\ KeyOf(nlast') \in processed_notifications' \/ nlast'.cleared
        /\ (NotifyStep /\ KeyOf(nlast') \in processed_notifications)
           => /\ ~nlast'.enqueued
              /\ notification_queue' = notification_queue
              /\ processed_notifications' = processed_notifications ]_vars

\* a notify call has just been dropped for its key, nothing was ever queued, and the
\* profile of the call is there, enabled and admitted by the status of now: the earlier
\* call with this key was dropped by a gate that has opened since
C38_Witness ==
    /\ nlast.op = "notify" /\ ~nlast.enqueued /\ ~nlast.inserted
    /\ nlast.msg.timestamp >= notification_start_time
    /\ KeyOf(nlast) \in processed_notifications
    /\ notification_queue = <<>>
    /\ ~GateDrops(nlast.msg, nlast.profile_name)

\* C39: for one message at most one entry per resolved profile is queued: whatever
\* the rules that match and the profiles they name, no entry rendered from a message
\* under a profile is there twice.
C39_OnePerResolvedProfile ==
    \A m \in RegistryMessages : \A name \in DOMAIN profiles :
       Copies(ItemFor(profiles[name], m)) <= 1

\* C40: set_user_profile with a name that is no profile returns False and leaves the
\* overrides and notifications.json as they were; every override names a profile;
\* create_profile returns True, stores the given profile under its name over whatever
\* was there, leaves the other profiles alone and saves the configuration.
C40_OverridesNameProfiles ==
    /\ [](\A user_id \in DOMAIN user_profiles : user_profiles[user_id] \in DOMAIN profiles)
    /\ [][/\ (nlast'.op = "set_user_profile" /\ nlast'.profile_name \notin DOMAIN profiles)
             => /\ nlast'.returned = FALSE
                /\ user_profiles' = user_profiles
                /\ config_file' = config_file
          /\ nlast'.op = "create_profile"
             => LET name == nlast'.profile_name IN
                /\ nlast'.returned
                /\ DOMAIN profiles' = DOMAIN profiles \cup {name}
                /\ profiles'[name] = NotificationProfile(name, nlast'.given[1],
                                                         nlast'.given[2], nlast'.given[3],
                                                         TRUE)
                /\ \A other \in DOMAIN profiles \ {name} : profiles'[other] = profiles[other]
                /\ user_profiles' = user_profiles
                /\ config_file' = [profiles |-> profiles', user_profiles |-> user_profiles]
         ]_vars

\* a refused override after "dm" was replaced and an override was stored
C40_Witness ==
    /\ nlast.op = "set_user_profile"
    /\ nlast.profile_name \notin DOMAIN profiles
    /\ ~nlast.returned
    /\ profiles["dm"] # DefaultProfiles["dm"]
    /\ "U1" \in DOMAIN user_profiles
    /\ config_file = [profiles |-> profiles, user_profiles |-> user_profiles]

====
